---- MODULE Spec2Model ----
(***************************************************************************)
(* Document-recognition pipeline of OCR-MAIN: the orchestrator             *)
(* (ProcessDocument.execute), the file storage with its numbered output    *)
(* directories (FileStorage), the PDF analyser (PDFAnalyzer) with its      *)
(* profile table, the adapter factory with the two recognition adapters    *)
(* it builds, the adapter of ocr_adapters.py with its flag-controlled      *)
(* preprocessing pipeline and skew correction, the command-line            *)
(* controller (DocumentController.process_pdf), the reading side of the    *)
(* storage (FileStorage.get_document), and the HTTP handlers of the API:   *)
(* system configuration update, the uploaded-file registry, and the        *)
(* upload-and-process endpoints with their temporary files.                *)
(***************************************************************************)
EXTENDS Integers, Sequences, FiniteSets, TLC

\* ------------------------------------------------------------------ bounds
\* runs of the orchestrator started in one behaviour
MaxRuns == 3
\* largest duration of a run, in clock units
MaxTime == 1
\* orchestrator invocations that may overlap in SpecConc
ConcProcs == 2
\* pages of an analysed PDF
MaxPages == 3
\* detected lines chosen freely in one skew estimation
MaxLines == 3

\* ------------------------------------------------------- optional values
\* Python None / a value that is set
None == <<>>
Some(v) == <<v>>

\* ------------------------------------------------------------ formatting
Digit(d) ==
  CASE d = 0 -> "0" [] d = 1 -> "1" [] d = 2 -> "2" [] d = 3 -> "3"
    [] d = 4 -> "4" [] d = 5 -> "5" [] d = 6 -> "6" [] d = 7 -> "7"
    [] d = 8 -> "8" [] d = 9 -> "9"

RECURSIVE ToStr(_)
\* str(n) of a natural number
ToStr(n) == IF n < 10 THEN Digit(n) ELSE ToStr(n \div 10) \o Digit(n % 10)

\* f"{counter:02d}": at least two digits, zero padded
Fmt02(n) == IF n < 10 THEN "0" \o Digit(n) ELSE ToStr(n)

\* the counter written without zero padding
unique_name_unpadded(base_name, counter) == base_name \o "_" \o ToStr(counter)

\* f"{base_name}_{counter:02d}"
unique_name(base_name, counter) == base_name \o "_" \o Fmt02(counter)

\* ----------------------------------------------------------------- paths
\* a source path: its directory and the dot-separated parts of its file name
Paths ==
  { [dir |-> "in", name |-> <<"a", "pdf">>],
    [dir |-> "up", name |-> <<"a_01", "pdf">>] }

RECURSIVE JoinDots(_)
JoinDots(parts) ==
  IF Len(parts) = 0 THEN ""
  ELSE IF Len(parts) = 1 THEN parts[1]
  ELSE parts[1] \o "." \o JoinDots(Tail(parts))

\* pathlib's Path.stem: the file name without its last suffix
Stem(path) ==
  IF Len(path.name) <= 1 THEN JoinDots(path.name)
  ELSE JoinDots(SubSeq(path.name, 1, Len(path.name) - 1))

\* str(pdf_path)
PathStr(path) == path.dir \o "/" \o JoinDots(path.name)

\* ---------------------------------------------------------- input domains
\* what the recognition engine reads in each PDF (a sequence of characters)
PdfText(path) == IF path.dir = "in" THEN <<"h", "i">> ELSE <<>>
\* what the table extractor finds in each PDF
PdfTables(path) == IF path.dir = "in" THEN <<>> ELSE << << <<"c">> >> >>
\* entries that may already be in the output root before the first run
InitEntries == { "a", "a_02" }

VARIABLES
  disk,             \* output root: directory name -> (file name -> content)
  pdfs,             \* source paths that exist
  last_confidence,  \* the recognition adapter's last_confidence
  run,              \* per invocation of ProcessDocument.execute: its locals
  started,          \* invocations started so far
  allocs,           \* history: directories returned by _create_unique_dir, in order
  root0,            \* history: the entries of the output root before the first run
  metrics,          \* PDFAnalyzer: the metrics dict being filled
  an,               \* PDFAnalyzer: position of analyze_pdf
  ad,               \* AdapterFactory and the adapters of infrastructure.adapters.ocr
  pre,              \* the adapter of ocr_adapters.py with its preprocessing pipeline
  st,               \* FileStorage called directly: saves made and the last get_document
  ctl,              \* DocumentController: what process_pdf returned
  cfg,              \* the shared system configuration and the last answer of update_system_config
  reg,              \* routers/files.py: uploaded_files_db, the stored files, process_uploaded_file
  up,               \* routers/documents.py: the temporary files and the upload requests in progress
  sk                \* _correct_skew applied to a page whose inclination is known

vars ==
  << disk, pdfs, last_confidence, run, started, allocs, root0, metrics, an, ad, pre,
     st,
     ctl,
     cfg,
     reg,
     up,
     sk >>

\* the entries of the output root
root == DOMAIN disk

Procs == 1 .. ConcProcs

\* ------------------------------------------------------------ documents
\* domain.entities.document.Document as SaveDocumentUseCase builds it: the
\* late-bound attributes start as None and nothing sets them before the save
EntityDocument(name, text, tbls, source_path) ==
  [ name |-> name, text |-> text, tables |-> tbls, source_path |-> source_path,
    confidence |-> None, output_directory |-> None,
    generated_files |-> None, processing_time |-> None ]

\* domain.models.Document(name, source_path, extracted_text, tables): the
\* late-bound attributes do not exist until they are assigned
ModelDocument(name, source_path, text, tbls) ==
  [ name |-> name, source_path |-> source_path, extracted_text |-> text,
    tables |-> tbls, confidence |-> None, output_directory |-> None,
    generated_files |-> None, processing_time |-> None ]

\* the assignment of processing_time left out
WithoutProcessingTime(doc, confidence, output_dir, generated_files, elapsed) ==
  [ doc EXCEPT !.confidence = Some(confidence),
               !.output_directory = Some(output_dir),
               !.generated_files = Some(generated_files) ]

\* the four assignments after the constructor call
WithLateFields(doc, confidence, output_dir, generated_files, elapsed) ==
  [ doc EXCEPT !.confidence = Some(confidence),
               !.output_directory = Some(output_dir),
               !.generated_files = Some(generated_files),
               !.processing_time = Some(elapsed) ]

\* ------------------------------------------------------------- storage
\* a generated file: Path(doc_dir / file)
FilePath(dir, file) == [ dir |-> dir, file |-> file ]

\* the metadata dict of save_document (the random uuid "id" is left out)
Metadata(document) ==
  [ name |-> document.name,
    text_length |-> Len(document.text),
    tables_count |-> Len(document.tables),
    confidence |-> document.confidence,
    processing_time |-> document.processing_time ]

\* the files named after document.name instead of the allocated directory
WritePlanByDocumentName(document, doc_dir, source_exists) ==
  << [ file |-> document.name \o "_texto.txt", content |-> document.text ] >>
  \o (IF document.tables # <<>>
        THEN << [ file |-> document.name \o "_tablas.json", content |-> document.tables ] >>
        ELSE <<>>)
  \o (IF source_exists
        THEN << [ file |-> document.name \o "_original.pdf", content |-> document.source_path ] >>
        ELSE <<>>)
  \o << [ file |-> document.name \o "_metadata.json", content |-> Metadata(document) ] >>

\* the writes save_document performs into doc_dir, in order
WritePlan(document, doc_dir, source_exists) ==
  << [ file |-> doc_dir \o "_texto.txt", content |-> document.text ] >>
  \o (IF document.tables # <<>>
        THEN << [ file |-> doc_dir \o "_tablas.json", content |-> document.tables ] >>
        ELSE <<>>)
  \o (IF source_exists
        THEN << [ file |-> doc_dir \o "_original.pdf", content |-> document.source_path ] >>
        ELSE <<>>)
  \o << [ file |-> doc_dir \o "_metadata.json", content |-> Metadata(document) ] >>

\* the directory doc_dir after the first n writes of plan
WriteInto(files, plan, n) ==
  [ f \in DOMAIN files \cup { plan[i].file : i \in 1 .. n } |->
      IF \E i \in 1 .. n : plan[i].file = f
        THEN plan[CHOOSE i \in 1 .. n :
                    plan[i].file = f /\ \A j \in (i + 1) .. n : plan[j].file # f].content
        ELSE files[f] ]

\* generated_files after all writes of plan
GeneratedFiles(doc_dir, plan) ==
  [ i \in 1 .. Len(plan) |-> FilePath(doc_dir, plan[i].file) ]

\* the output root with directory d holding files
PutDir(d, files) ==
  [ x \in root \cup {d} |-> IF x = d THEN files ELSE disk[x] ]

EmptyDir == [ f \in {} |-> <<>> ]

\* ----------------------------------------------------------- orchestrator
NoPath == [ dir |-> "", name |-> <<>> ]

IdleRun ==
  [ pc |-> "idle", pdf_path |-> NoPath, start_time |-> 0,
    extracted_text |-> <<>>, confidence |-> None, tables |-> <<>>,
    base_name |-> "", unique_dir |-> "", counter |-> 0,
    output_dir |-> None, generated_files |-> <<>>,
    document |-> None, raised |-> None,
    calls |-> <<>>, root_start |-> {} ]

\* the original exception raised again unchanged
Reraised(path, e) ==
  [ type |-> e, about |-> PathStr(path), cause |-> e ]

\* raise ProcessingError(f"Error procesando {pdf_path}: {str(e)}")
Wrapped(path, e) ==
  [ type |-> "ProcessingError", about |-> PathStr(path), cause |-> e ]

\* the run tried again from the first step instead of raising
OnExceptionRetry(r, e, calls) ==
  [ r EXCEPT !.pc = "ocr", !.calls = calls ]

\* the except clause of execute: exception e escaped the call logged last in calls
OnException(r, e, calls) ==
  [ r EXCEPT !.pc = "failed", !.calls = calls,
             !.raised = Some(Wrapped(r.pdf_path, e)) ]

\* the output directory created on entry, before recognition
StartAllocatingFirst(p, path) ==
  /\ run[p].pc \in { "idle", "done", "failed" }
  /\ started < MaxRuns
  /\ started' = started + 1
  /\ run' = [ run EXCEPT ![p] =
               [ IdleRun EXCEPT !.pc = "ocr", !.pdf_path = path,
                                !.start_time = 0, !.root_start = root ] ]
  /\ disk' = IF Stem(path) \in root THEN disk ELSE PutDir(Stem(path), EmptyDir)
  /\ UNCHANGED << pdfs, last_confidence, allocs, root0, metrics, an, ad, pre, st, ctl, cfg, reg, up, sk >>

\* execute is entered with pdf_path; start_time = time.time() is the origin
\* from which the run's clock is read
Start(p, path) ==
  /\ run[p].pc \in { "idle", "done", "failed" }
  /\ started < MaxRuns
  /\ started' = started + 1
  /\ run' = [ run EXCEPT ![p] =
               [ IdleRun EXCEPT !.pc = "ocr", !.pdf_path = path,
                                !.start_time = 0, !.root_start = root ] ]
  /\ UNCHANGED << disk, pdfs, last_confidence, allocs, root0, metrics, an, ad, pre, st, ctl, cfg, reg, up, sk >>

\* ExtractDocumentTextUseCase.execute: extract_text, then get_confidence
ExtractText(p) ==
  /\ run[p].pc = "ocr"
  /\ \/ \* convert_from_path or the engine raises; the adapter wraps it
        run' = [ run EXCEPT ![p] =
                 OnException(@, "ProcessingError", Append(@.calls, "extract_text")) ]
     \/ /\ run[p].pdf_path \in pdfs
        /\ run' = [ run EXCEPT ![p] =
                   [ @ EXCEPT !.pc = "tables",
                              !.extracted_text = PdfText(run[p].pdf_path),
                              !.confidence = Some(last_confidence),
                              !.calls = @ \o << "extract_text", "get_confidence" >> ] ]
  /\ UNCHANGED << disk, pdfs, last_confidence, started, allocs, root0, metrics, an, ad, pre, st, ctl, cfg, reg, up, sk >>

\* ExtractTablesUseCase.execute
ExtractTables(p) ==
  /\ run[p].pc = "tables"
  /\ \/ run' = [ run EXCEPT ![p] =
                 OnException(@, "RuntimeError", Append(@.calls, "extract_tables")) ]
     \/ run' = [ run EXCEPT ![p] =
                 [ @ EXCEPT !.pc = "save", !.tables = PdfTables(run[p].pdf_path),
                            !.calls = Append(@, "extract_tables") ] ]
  /\ UNCHANGED << disk, pdfs, last_confidence, started, allocs, root0, metrics, an, ad, pre, st, ctl, cfg, reg, up, sk >>

\* SaveDocumentUseCase.execute calls storage.save_document, which enters
\* _create_unique_dir(document.name)
SaveBegin(p) ==
  /\ run[p].pc = "save"
  /\ run' = [ run EXCEPT ![p] =
               [ @ EXCEPT !.pc = "exists",
                          !.base_name = Stem(run[p].pdf_path),
                          !.unique_dir = Stem(run[p].pdf_path),
                          !.counter = 1,
                          !.calls = Append(@, "save_document") ] ]
  /\ UNCHANGED << disk, pdfs, last_confidence, started, allocs, root0, metrics, an, ad, pre, st, ctl, cfg, reg, up, sk >>

\* the loop trying every second counter only
ExistsCheckSkipping(p) ==
  /\ run[p].pc = "exists"
  /\ run' = [ run EXCEPT ![p] =
               IF @.unique_dir \in root
                 THEN [ @ EXCEPT !.unique_dir = unique_name(run[p].base_name, run[p].counter + 1),
                                 !.counter = @ + 2 ]
                 ELSE [ @ EXCEPT !.pc = "mkdir" ] ]
  /\ UNCHANGED << disk, pdfs, last_confidence, started, allocs, root0, metrics, an, ad, pre, st, ctl, cfg, reg, up, sk >>

\* one evaluation of the loop condition unique_dir.exists()
ExistsCheck(p) ==
  /\ run[p].pc = "exists"
  /\ run' = [ run EXCEPT ![p] =
               IF @.unique_dir \in root
                 THEN [ @ EXCEPT !.unique_dir = unique_name(run[p].base_name, run[p].counter),
                                 !.counter = @ + 1 ]
                 ELSE [ @ EXCEPT !.pc = "mkdir" ] ]
  /\ UNCHANGED << disk, pdfs, last_confidence, started, allocs, root0, metrics, an, ad, pre, st, ctl, cfg, reg, up, sk >>

\* unique_dir.mkdir(parents=True, exist_ok=True); return unique_dir
Mkdir(p) ==
  /\ run[p].pc = "mkdir"
  /\ disk' = IF run[p].unique_dir \in root THEN disk
             ELSE PutDir(run[p].unique_dir, EmptyDir)
  /\ allocs' = Append(allocs, [ by |-> p, base |-> run[p].base_name,
                                dir |-> run[p].unique_dir ])
  /\ run' = [ run EXCEPT ![p].pc = "write" ]
  /\ UNCHANGED << pdfs, last_confidence, started, root0, metrics, an, ad, pre, st, ctl, cfg, reg, up, sk >>

\* a failed save removing the directory it was allocated
WriteFilesRollingBack(p) ==
  /\ run[p].pc = "write"
  /\ LET r == run[p]
         document == EntityDocument(r.base_name, r.extracted_text, r.tables,
                                    PathStr(r.pdf_path))
         plan == WritePlan(document, r.unique_dir, r.pdf_path \in pdfs)
     IN \E k \in 0 .. Len(plan) :
          IF k = 0
            THEN /\ disk' = PutDir(r.unique_dir,
                                   WriteInto(disk[r.unique_dir], plan, Len(plan)))
                 /\ run' = [ run EXCEPT ![p] =
                      [ @ EXCEPT !.pc = "assemble",
                                 !.generated_files = GeneratedFiles(r.unique_dir, plan),
                                 !.output_dir =
                                    IF GeneratedFiles(r.unique_dir, plan) # <<>>
                                      THEN Some(GeneratedFiles(r.unique_dir, plan)[1].dir)
                                      ELSE None ] ]
            ELSE /\ disk' = [ d \in root \ { r.unique_dir } |-> disk[d] ]
                 /\ run' = [ run EXCEPT ![p] = OnException(@, "OSError", @.calls) ]
  /\ UNCHANGED << pdfs, last_confidence, started, allocs, root0, metrics, an, ad, pre, st, ctl, cfg, reg, up, sk >>

\* the body of save_document after the directory is there, and the return of
\* SaveDocumentUseCase.execute; k = 0: every write succeeds, k > 0: write k raises
WriteFiles(p) ==
  /\ run[p].pc = "write"
  /\ LET r == run[p]
         document == EntityDocument(r.base_name, r.extracted_text, r.tables,
                                    PathStr(r.pdf_path))
         plan == WritePlan(document, r.unique_dir, r.pdf_path \in pdfs)
     IN \E k \in 0 .. Len(plan) :
          IF k = 0
            THEN /\ disk' = PutDir(r.unique_dir,
                                   WriteInto(disk[r.unique_dir], plan, Len(plan)))
                 /\ run' = [ run EXCEPT ![p] =
                      [ @ EXCEPT !.pc = "assemble",
                                 !.generated_files = GeneratedFiles(r.unique_dir, plan),
                                 !.output_dir =
                                    IF GeneratedFiles(r.unique_dir, plan) # <<>>
                                      THEN Some(GeneratedFiles(r.unique_dir, plan)[1].dir)
                                      ELSE None ] ]
            ELSE /\ disk' = PutDir(r.unique_dir,
                                   WriteInto(disk[r.unique_dir], plan, k - 1))
                 /\ run' = [ run EXCEPT ![p] = OnException(@, "OSError", @.calls) ]
  /\ UNCHANGED << pdfs, last_confidence, started, allocs, root0, metrics, an, ad, pre, st, ctl, cfg, reg, up, sk >>

\* the document named after the PDF's stem
DocumentNameFromStem(r) == r.base_name

\* name=output_dir.name: the document is named after the allocated directory
DocumentName(r) == r.output_dir[1]

\* step 4 of execute: build the Document and return it
Assemble(p) ==
  /\ run[p].pc = "assemble"
  /\ LET r == run[p]
     IN \E time \in r.start_time .. r.start_time + MaxTime :
          run' = [ run EXCEPT ![p] =
               IF r.output_dir = None
                 THEN OnException(r, "AttributeError", r.calls)
                 ELSE [ r EXCEPT !.pc = "done",
                          !.document = Some(WithLateFields(
                              ModelDocument(DocumentName(r), PathStr(r.pdf_path),
                                            r.extracted_text, r.tables),
                              r.confidence[1], r.output_dir[1], r.generated_files,
                              time - r.start_time)) ] ]
  /\ UNCHANGED << disk, pdfs, last_confidence, started, allocs, root0, metrics, an, ad, pre, st, ctl, cfg, reg, up, sk >>

\* ------------------------------------------------------------ controller
\* hasattr(obj, name) / the AttributeError of a missing attribute
HasAttr(obj, name) == name \in DOMAIN obj

\* the dict of the two except clauses of process_pdf
Failure(prefix, error) ==
  [ success |-> FALSE, error |-> error, message |-> << prefix, error >> ]

\* DocumentController.process_pdf on what the use case did: raised is the
\* exception it raised, returned the Document it returned
process_pdf(returned, raised) ==
  IF raised # None
    THEN IF raised[1].type \in { "OCRError", "ProcessingError" }
           THEN Failure("Error: ", raised[1])
           ELSE Failure("Error inesperado: ", raised[1])
  ELSE LET document == returned[1]
       IN IF ~ HasAttr(document, "text")
            THEN Failure("Error inesperado: ",
                         [ type |-> "AttributeError",
                           about |-> "'Document' object has no attribute 'text'",
                           cause |-> "AttributeError" ])
            ELSE [ success |-> TRUE,
                   document |-> document.name,
                   text_length |-> Len(document.text),
                   tables_count |-> Len(document.tables),
                   output_dir |-> document.output_directory,
                   confidence |-> document.confidence,
                   processing_time |-> document.processing_time,
                   message |-> "Proceso completado exitosamente!" ]

\* process_pdf returns to its caller once the use case it called is over
ProcessPdfReturn(p) ==
  /\ ctl = None
  /\ run[p].pc \in { "done", "failed" }
  /\ ctl' = Some(process_pdf(run[p].document, run[p].raised))
  /\ UNCHANGED << disk, pdfs, last_confidence, run, started, allocs, root0, metrics,
                  an, ad, pre, st, cfg, reg, up, sk >>

\* ------------------------------------------------------------ environment
\* a source PDF is removed (delete_uploaded_file, temp-file cleanup)
DeleteSource(path) ==
  /\ path \in pdfs
  /\ pdfs' = pdfs \ {path}
  /\ UNCHANGED << disk, last_confidence, run, started, allocs, root0, metrics, an, ad, pre, st, ctl, cfg, reg, up, sk >>

\* ------------------------------------------------------------ PDFAnalyzer
\* a float that is a quotient of two counts, kept exact
Ratio(n, d) == [ num |-> n, den |-> d ]
Zero == Ratio(0, 1)
\* r > n / d
RatioGt(r, n, d) == r.num * d > n * r.den

\* what page.extract_text() may return: None, whitespace only, or real text
PageTexts ==
  { [ len |-> 0, blank |-> TRUE ], [ len |-> 2, blank |-> TRUE ],
    [ len |-> 100, blank |-> FALSE ], [ len |-> 101, blank |-> FALSE ] }
\* len(page.extract_tables()) and len(page.get_images()) of one page
PageTableCounts == { 0, 1 }
PageImageCounts == { 0, 1, 2 }

\* the metrics dict as _extract_pdf_metrics creates it
NoMetrics ==
  [ total_pages |-> 0, text_extractable_pages |-> 0, total_text_length |-> 0,
    total_images |-> 0, total_tables |-> 0, avg_text_per_page |-> Zero,
    has_fonts |-> FALSE, image_to_page_ratio |-> Zero,
    table_to_page_ratio |-> Zero ]

\* the derived ratios computed whatever the page count
DerivedUnguarded(m) ==
  [ m EXCEPT
      !.avg_text_per_page = Ratio(m.total_text_length, m.total_pages),
      !.image_to_page_ratio = Ratio(m.total_images, m.total_pages),
      !.table_to_page_ratio = Ratio(m.total_tables, m.total_pages) ]

\* the derived ratios, computed only when total_pages > 0
Derived(m) ==
  IF m.total_pages > 0
    THEN [ m EXCEPT
             !.avg_text_per_page = Ratio(m.total_text_length, m.total_pages),
             !.image_to_page_ratio = Ratio(m.total_images, m.total_pages),
             !.table_to_page_ratio = Ratio(m.total_tables, m.total_pages) ]
    ELSE m

\* the table rule tried before the scanned rule
classify_tables_first(m) ==
  IF RatioGt(m.table_to_page_ratio, 4, 5)
    THEN "TABLE_HEAVY"
  ELSE IF /\ ~ m.has_fonts
          /\ 10 * m.text_extractable_pages < 3 * m.total_pages
          /\ RatioGt(m.image_to_page_ratio, 1, 2)
    THEN "SCANNED"
  ELSE IF RatioGt(m.image_to_page_ratio, 3, 2)
    THEN "IMAGE_HEAVY"
  ELSE IF /\ m.has_fonts
          /\ 10 * m.text_extractable_pages > 8 * m.total_pages
          /\ RatioGt(m.avg_text_per_page, 100, 1)
    THEN "NATIVE_TEXT"
  ELSE "MIXED"

\* _classify_pdf_type: the guards in the order of the code
classify_pdf_type(m) ==
  IF /\ ~ m.has_fonts
     /\ 10 * m.text_extractable_pages < 3 * m.total_pages
     /\ RatioGt(m.image_to_page_ratio, 1, 2)
    THEN "SCANNED"
  ELSE IF RatioGt(m.table_to_page_ratio, 4, 5)
    THEN "TABLE_HEAVY"
  ELSE IF RatioGt(m.image_to_page_ratio, 3, 2)
    THEN "IMAGE_HEAVY"
  ELSE IF /\ m.has_fonts
          /\ 10 * m.text_extractable_pages > 8 * m.total_pages
          /\ RatioGt(m.avg_text_per_page, 100, 1)
    THEN "NATIVE_TEXT"
  ELSE "MIXED"

\* the five members of PDFType
PDFTypes == { "SCANNED", "NATIVE_TEXT", "MIXED", "TABLE_HEAVY", "IMAGE_HEAVY" }

\* one entry of the configs dict of get_optimal_config
Profile(engine_type, deskew, denoise, contrast, dpi, strategy) ==
  [ engine_type |-> engine_type, enable_deskewing |-> deskew,
    enable_denoising |-> denoise, enable_contrast_enhancement |-> contrast,
    dpi |-> dpi, strategy |-> strategy ]

\* the configs dict of get_optimal_config
configs ==
  [ t \in PDFTypes |->
      CASE t = "SCANNED" -> Profile("opencv", TRUE, TRUE, TRUE, 300, "full_ocr")
        [] t = "NATIVE_TEXT" -> Profile("basic", FALSE, FALSE, FALSE, 150, "text_extraction")
        [] t = "MIXED" -> Profile("opencv", TRUE, FALSE, TRUE, 250, "hybrid")
        [] t = "TABLE_HEAVY" -> Profile("opencv", FALSE, TRUE, TRUE, 300, "table_focused")
        [] t = "IMAGE_HEAVY" -> Profile("opencv", TRUE, TRUE, TRUE, 300, "image_focused") ]

\* every type answered with the profile of MIXED
get_optimal_config_always_mixed(pdf_type) == configs["MIXED"]

\* configs.get(pdf_type, configs[PDFType.MIXED])
get_optimal_config(pdf_type) ==
  IF pdf_type \in DOMAIN configs THEN configs[pdf_type] ELSE configs["MIXED"]

\* what escapes when a reader cannot open or read the PDF; pdfplumber and fitz
\* are not imported by the module, so where the names are unbound the first
\* use raises NameError
ReaderErrors ==
  { [ type |-> "NameError", message |-> << "name 'pdfplumber' is not defined" >> ],
    [ type |-> "FileNotFoundError", message |-> << "No such file or directory" >> ],
    [ type |-> "PDFSyntaxError", message |-> << "No /Root object! - Is this really a PDF?" >> ],
    [ type |-> "FileDataError", message |-> << "cannot open broken document" >> ] }

AnIdle == [ pc |-> "idle", i |-> 0, pdf_type |-> None, raised |-> None, config |-> None ]

\* analyze_pdf is entered; pdfplumber opens a PDF of n pages
AnalyzeOpen(n) ==
  /\ an.pc \in { "idle", "done", "raised" }
  /\ metrics' = [ NoMetrics EXCEPT !.total_pages = n ]
  /\ an' = [ AnIdle EXCEPT !.pc = "plumber" ]
  /\ UNCHANGED << disk, pdfs, last_confidence, run, started, allocs, root0, ad, pre, st, ctl, cfg, reg, up, sk >>

\* one iteration of the pdfplumber loop
PlumberPage(text, ntables) ==
  /\ an.pc = "plumber"
  /\ an.i < metrics.total_pages
  /\ metrics' =
       [ metrics EXCEPT
           !.text_extractable_pages = IF ~ text.blank THEN @ + 1 ELSE @,
           !.total_text_length = IF ~ text.blank THEN @ + text.len ELSE @,
           !.total_tables = @ + ntables ]
  /\ an' = [ an EXCEPT !.i = @ + 1 ]
  /\ UNCHANGED << disk, pdfs, last_confidence, run, started, allocs, root0, ad, pre, st, ctl, cfg, reg, up, sk >>

\* the pdfplumber loop ends; PyMuPDF opens the same PDF
FitzOpen ==
  /\ an.pc = "plumber"
  /\ an.i = metrics.total_pages
  /\ an' = [ an EXCEPT !.pc = "fitz", !.i = 0 ]
  /\ UNCHANGED << disk, pdfs, last_confidence, run, started, allocs, root0, metrics, ad, pre, st, ctl, cfg, reg, up, sk >>

\* one iteration of the PyMuPDF loop
FitzPage(nimages, fonts) ==
  /\ an.pc = "fitz"
  /\ an.i < metrics.total_pages
  /\ metrics' = [ metrics EXCEPT !.total_images = @ + nimages,
                                 !.has_fonts = IF fonts THEN TRUE ELSE @ ]
  /\ an' = [ an EXCEPT !.i = @ + 1 ]
  /\ UNCHANGED << disk, pdfs, last_confidence, run, started, allocs, root0, ad, pre, st, ctl, cfg, reg, up, sk >>

\* a reader raises while opening the PDF or reading a page: nothing in
\* _extract_pdf_metrics or analyze_pdf catches it, the metrics dict is lost
AnalyzeRaise(e) ==
  /\ an.pc \in { "idle", "done", "raised", "plumber", "fitz" }
  /\ metrics' = NoMetrics
  /\ an' = [ AnIdle EXCEPT !.pc = "raised", !.raised = Some(e) ]
  /\ UNCHANGED << disk, pdfs, last_confidence, run, started, allocs, root0, ad, pre, st, ctl, cfg, reg, up, sk >>

\* get_optimal_config(pdf_type) is called after an analysis
GetOptimalConfig(pdf_type) ==
  /\ an.pc = "done"
  /\ an' = [ an EXCEPT !.config = Some([ pdf_type |-> pdf_type,
                                         profile |-> get_optimal_config(pdf_type) ]) ]
  /\ UNCHANGED << disk, pdfs, last_confidence, run, started, allocs, root0,
                  metrics, ad, pre, st, ctl, cfg, reg, up, sk >>

\* the derived ratios, the return of _extract_pdf_metrics, and the classification
AnalyzeFinish ==
  /\ an.pc = "fitz"
  /\ an.i = metrics.total_pages
  /\ metrics' = Derived(metrics)
  /\ an' = [ an EXCEPT !.pc = "done",
                       !.pdf_type = Some(classify_pdf_type(Derived(metrics))) ]
  /\ UNCHANGED << disk, pdfs, last_confidence, run, started, allocs, root0, ad, pre, st, ctl, cfg, reg, up, sk >>

\* ------------------------------------------------------- OCR adapters
\* domain.constants
ENGINE_TYPE_BASIC == "basic"
ENGINE_TYPE_OPENCV == "opencv"

\* the selectors, languages and resolutions a SystemConfig may carry
EngineTypes == { ENGINE_TYPE_BASIC, ENGINE_TYPE_OPENCV, "auto" }
Languages == { "spa", "eng" }
Dpis == { 150, 300 }
SystemConfigs ==
  [ engine_type : EngineTypes, language : Languages, dpi : Dpis,
    enable_deskewing : BOOLEAN, enable_denoising : BOOLEAN,
    enable_contrast_enhancement : BOOLEAN ]

\* an exception: its class and the pieces of str(e)
Error(type, message) == [ type |-> type, message |-> message ]

\* TesseractAdapter(lang, dpi) of infrastructure.adapters.ocr
TesseractAdapter(lang, dpi) ==
  [ cls |-> "TesseractAdapter", lang |-> lang, dpi |-> dpi, last_confidence |-> 0 ]

\* TesseractOpenCVAdapter(lang, dpi) of infrastructure.adapters.ocr
TesseractOpenCVAdapter(lang, dpi) ==
  [ cls |-> "TesseractOpenCVAdapter", lang |-> lang, dpi |-> dpi, last_confidence |-> 0 ]

\* from_config of either class: cls(lang=config.language, dpi=config.dpi)
from_config(cls, config) ==
  IF cls = "TesseractAdapter"
    THEN TesseractAdapter(config.language, config.dpi)
    ELSE TesseractOpenCVAdapter(config.language, config.dpi)

\* a full confidence reported whatever was recognised
get_confidence_full(adapter) == 100

\* get_confidence of either class: return self.last_confidence
get_confidence(adapter) == adapter.last_confidence

\* a call of the factory: what it returns or raises, and what it constructed
Outcome(returned, raised, constructed) ==
  [ returned |-> returned, raised |-> raised, constructed |-> constructed ]

\* an unknown selector answered with the direct adapter
create_ocr_adapter_defaulting(config) ==
  IF config.engine_type = ENGINE_TYPE_OPENCV
    THEN Outcome(Some(from_config("TesseractOpenCVAdapter", config)), None,
                 << from_config("TesseractOpenCVAdapter", config) >>)
    ELSE Outcome(Some(from_config("TesseractAdapter", config)), None,
                 << from_config("TesseractAdapter", config) >>)

\* AdapterFactory.create_ocr_adapter
create_ocr_adapter(config) ==
  IF config.engine_type = ENGINE_TYPE_BASIC
    THEN Outcome(Some(from_config("TesseractAdapter", config)), None,
                 << from_config("TesseractAdapter", config) >>)
  ELSE IF config.engine_type = ENGINE_TYPE_OPENCV
    THEN Outcome(Some(from_config("TesseractOpenCVAdapter", config)), None,
                 << from_config("TesseractOpenCVAdapter", config) >>)
  ELSE Outcome(None,
               Some(Error("ConfigurationError",
                          << "Motor OCR no soportado: ", config.engine_type >>)),
               <<>>)

\* a rasterized page: its number, its resolution, the transforms applied to it
PageImage(k, dpi) == [ page |-> k, dpi |-> dpi, ops |-> <<>> ]

\* convert_from_path(pdf_path, dpi=self.dpi) on a PDF of n pages
convert_from_path(n, dpi) == [ k \in 1 .. n |-> PageImage(k, dpi) ]

\* what pdf2image raises: poppler's message quotes the file it could not read
RasterErrors(path) ==
  { Error("PDFPageCountError", << "Unable to get page count. ", PathStr(path) >>),
    Error("PDFInfoNotInstalledError", << "Unable to get page count. Is poppler installed?" >>) }

\* what the engine raises for a page
EngineErrors == { Error("TesseractError", << "(1, 'Error opening data file')" >>) }

\* what cv2 raises for a page it cannot convert
Cv2Errors == { Error("cv2.error", << "Invalid number of channels in input image" >>) }

\* the texts image_to_string may return for a page
EngineTexts == { <<>>, << "y", "\n" >> }

\* the page handed to the engine without preprocessing
preprocess_image_skipped(image) == image

\* TesseractOpenCVAdapter._preprocess_image of infrastructure.adapters.ocr
preprocess_image(image) ==
  [ image EXCEPT !.ops = @ \o << "grayscale", "adaptive_threshold", "median_blur" >> ]

RECURSIVE join_single(_, _)
\* the page texts joined by a single newline
join_single(sep, texts) ==
  IF Len(texts) = 0 THEN <<>>
  ELSE IF Len(texts) = 1 THEN texts[1]
  ELSE texts[1] \o << "\n" >> \o join_single(sep, Tail(texts))

RECURSIVE join(_, _)
\* sep.join(texts) on sequences of characters
join(sep, texts) ==
  IF Len(texts) = 0 THEN <<>>
  ELSE IF Len(texts) = 1 THEN texts[1]
  ELSE texts[1] \o sep \o join(sep, Tail(texts))

\* the f-string prefixes of the two except clauses
ErrorPrefix(cls) ==
  IF cls = "TesseractAdapter" THEN "Error en OCR básico: "
  ELSE "Error en OCR con OpenCV: "

AdIdle ==
  [ pc |-> "none", config |-> None, adapter |-> None, constructed |-> <<>>,
    raised |-> None, pdf_path |-> NoPath, images |-> <<>>, i |-> 0,
    extracted_text |-> <<>>, engine |-> <<>>, result |-> None ]

\* the except clause of extract_text: the locals are gone, e is wrapped
ExtractTextExcept(a, e) ==
  [ a EXCEPT !.pc = "failed", !.images = <<>>, !.i = 0, !.extracted_text = <<>>,
             !.raised = Some(Error("ProcessingError",
                                   << ErrorPrefix(a.adapter[1].cls) >> \o e.message)) ]

\* AdapterFactory.create_ocr_adapter(config) is called
CreateOcrAdapter(config) ==
  /\ ad.pc \in { "none", "ready", "returned", "failed" }
  /\ LET out == create_ocr_adapter(config)
     IN ad' = [ AdIdle EXCEPT !.pc = IF out.returned # None THEN "ready" ELSE "none",
                              !.config = Some(config),
                              !.adapter = out.returned,
                              !.constructed = out.constructed,
                              !.raised = out.raised ]
  /\ UNCHANGED << disk, pdfs, last_confidence, run, started, allocs, root0,
                  metrics, an, pre, st, ctl, cfg, reg, up, sk >>

\* extract_text(pdf_path) is entered and the PDF is rasterized
ExtractTextBegin(path, n) ==
  /\ ad.pc \in { "ready", "returned", "failed" }
  /\ LET a == [ ad EXCEPT !.pdf_path = path, !.raised = None, !.result = None,
                          !.engine = <<>>, !.extracted_text = <<>>, !.i = 0 ]
     IN \/ \E e \in RasterErrors(path) : ad' = ExtractTextExcept(a, e)
        \/ /\ path \in pdfs
           /\ ad' = [ a EXCEPT !.pc = "pages",
                               !.images = convert_from_path(n, ad.adapter[1].dpi) ]
  /\ UNCHANGED << disk, pdfs, last_confidence, run, started, allocs, root0,
                  metrics, an, pre, st, ctl, cfg, reg, up, sk >>

\* one iteration of the page loop of extract_text
ExtractTextPage ==
  /\ ad.pc = "pages"
  /\ ad.i < Len(ad.images)
  /\ LET image == ad.images[ad.i + 1]
         opencv == ad.adapter[1].cls = "TesseractOpenCVAdapter"
         given == IF opencv THEN preprocess_image(image) ELSE image
     IN \/ /\ opencv
           /\ \E e \in Cv2Errors : ad' = ExtractTextExcept(ad, e)
        \/ \E e \in EngineErrors :
             ad' = ExtractTextExcept(
                     [ ad EXCEPT !.engine = Append(@, [ image |-> given, text |-> None ]) ], e)
        \/ \E text \in EngineTexts :
             ad' = [ ad EXCEPT !.i = @ + 1,
                               !.extracted_text = Append(@, text),
                               !.engine = Append(@, [ image |-> given,
                                                      text |-> Some(text) ]) ]
  /\ UNCHANGED << disk, pdfs, last_confidence, run, started, allocs, root0,
                  metrics, an, pre, st, ctl, cfg, reg, up, sk >>

\* the loop is over: "\n\n".join(extracted_text) is returned
ExtractTextReturn ==
  /\ ad.pc = "pages"
  /\ ad.i = Len(ad.images)
  /\ ad' = [ ad EXCEPT !.pc = "returned",
                       !.result = Some(join(<< "\n", "\n" >>, ad.extracted_text)) ]
  /\ UNCHANGED << disk, pdfs, last_confidence, run, started, allocs, root0,
                  metrics, an, pre, st, ctl, cfg, reg, up, sk >>

\* ------------------------------------- adapter with preprocessing flags
\* lines[:min(10, len(lines))]
SkewSampleLines == 10
\* abs(angle) < 45
MaxSkewAngle == 45

Abs(x) == IF x < 0 THEN -x ELSE x
Min(a, b) == IF a < b THEN a ELSE b

\* ocr_adapters.TesseractOpenCVAdapter(lang, dpi, enable_deskewing,
\* enable_denoising, enable_contrast_enhancement)
ocr_adapters_TesseractOpenCVAdapter(lang, dpi, deskew, denoise, contrast) ==
  [ cls |-> "ocr_adapters.TesseractOpenCVAdapter", lang |-> lang, dpi |-> dpi,
    enable_deskewing |-> deskew, enable_denoising |-> denoise,
    enable_contrast_enhancement |-> contrast ]

\* a row of cv2.HoughLines: [[rho, theta]], theta in whole degrees (the angle
\* resolution passed is pi/180), or a row that cannot be unpacked
HoughLine(theta) == [ ok |-> TRUE, theta |-> theta ]
BadLine == [ ok |-> FALSE, theta |-> 0 ]
LineValues == { HoughLine(89), HoughLine(90), HoughLine(91), HoughLine(135), BadLine }

\* the detected lines: None, or rows that start with FillerCounts rows at 135
\* degrees followed by up to MaxLines rows chosen freely
FillerCounts == { 0, 8 }
Filler(k) == [ j \in 1 .. k |-> HoughLine(135) ]
HoughResults ==
  { None } \cup
  { Some(Filler(k) \o head) :
      k \in FillerCounts, head \in UNION { [ 1 .. m -> LineValues ] : m \in 0 .. MaxLines } }

\* the angle measured from the other side of the normal
angle_mirrored(line) == 90 - line.theta

\* theta * 180 / np.pi - 90, in degrees
Angle(line) == line.theta - 90

\* every usable row kept, whatever its angle
collect_angles_unfiltered(lines) ==
  LET sample == SubSeq(lines, 1, Min(SkewSampleLines, Len(lines)))
      kept == SelectSeq(sample, LAMBDA line : line.ok)
  IN [ j \in 1 .. Len(kept) |-> Angle(kept[j]) ]

\* the loop over lines[:min(10, len(lines))]: rows that cannot be unpacked are
\* skipped, angles of 45 degrees or more are dropped
collect_angles(lines) ==
  LET sample == SubSeq(lines, 1, Min(SkewSampleLines, Len(lines)))
      kept == SelectSeq(sample, LAMBDA line : line.ok /\ Abs(Angle(line)) < MaxSkewAngle)
  IN [ j \in 1 .. Len(kept) |-> Angle(kept[j]) ]

\* np.median of a non-empty list, as an exact quotient
median(angles) ==
  LET sorted == SortSeq(angles, LAMBDA a, b : a < b)
      n == Len(sorted)
  IN IF n % 2 = 1 THEN Ratio(sorted[(n + 1) \div 2], 1)
     ELSE Ratio(sorted[n \div 2] + sorted[n \div 2 + 1], 2)

\* abs(rotation_angle) > 0.5
significant(rotation_angle) ==
  RatioGt(Ratio(Abs(rotation_angle.num), rotation_angle.den), 1, 2)

\* the locals of _correct_skew
NoSkew == [ lines |-> None, angles |-> <<>>, rotation_angle |-> None ]

\* what may go wrong inside the try block of _correct_skew before the rotation
EstimateFaults == { "Canny", "HoughLines", "line" }

PreIdle ==
  [ pc |-> "none", adapter |-> None, n |-> 0, i |-> 0, image |-> None,
    skew |-> NoSkew, fault |-> "none", extracted_text |-> <<>>,
    result |-> None, raised |-> None ]

\* the exception let out of _correct_skew
correct_skew_reraise(r, fault) ==
  [ r EXCEPT !.pc = "raised", !.skew = NoSkew, !.fault = fault,
             !.raised = Some(Error("cv2.error", << fault >>)) ]

\* except Exception in _correct_skew: logged at debug level, image returned
correct_skew_except(r, fault) ==
  [ r EXCEPT !.pc = "binarize", !.skew = NoSkew, !.fault = fault ]

\* one transform appended to the page being preprocessed
Applied(r, op) == [ r EXCEPT !.image = Some([ r.image[1] EXCEPT !.ops = Append(@, op) ]) ]

\* the adapter is constructed with its three flags
PreConstruct(deskew, denoise, contrast) ==
  /\ pre.pc \in { "none", "ready", "returned", "raised" }
  /\ pre' = [ PreIdle EXCEPT
                !.pc = "ready",
                !.adapter = Some(ocr_adapters_TesseractOpenCVAdapter(
                                   "spa", 300, deskew, denoise, contrast)) ]
  /\ UNCHANGED << disk, pdfs, last_confidence, run, started, allocs, root0,
                  metrics, an, ad, st, ctl, cfg, reg, up, sk >>

\* extract_text is entered and the PDF is rasterized; nothing catches an error
PreExtractBegin(path, n) ==
  /\ pre.pc \in { "ready", "returned", "raised" }
  /\ LET r == [ PreIdle EXCEPT !.adapter = pre.adapter ]
     IN \/ \E e \in RasterErrors(path) :
             pre' = [ r EXCEPT !.pc = "raised", !.raised = Some(e) ]
        \/ pre' = [ r EXCEPT !.pc = "page", !.n = n ]
  /\ UNCHANGED << disk, pdfs, last_confidence, run, started, allocs, root0,
                  metrics, an, ad, st, ctl, cfg, reg, up, sk >>

\* _preprocess_image is entered for the next page: conversion to grayscale
PreGrayscale ==
  /\ pre.pc = "page"
  /\ pre.i < pre.n
  /\ pre' = [ pre EXCEPT
                !.pc = "denoise", !.fault = "none",
                !.image = Some([ page |-> pre.i + 1, rotation |-> None,
                                 ops |-> << "grayscale" >> ]) ]
  /\ UNCHANGED << disk, pdfs, last_confidence, run, started, allocs, root0,
                  metrics, an, ad, st, ctl, cfg, reg, up, sk >>

\* if self.enable_denoising: bilateralFilter
PreDenoise ==
  /\ pre.pc = "denoise"
  /\ pre' = [ (IF pre.adapter[1].enable_denoising THEN Applied(pre, "denoise") ELSE pre)
                EXCEPT !.pc = "contrast" ]
  /\ UNCHANGED << disk, pdfs, last_confidence, run, started, allocs, root0,
                  metrics, an, ad, st, ctl, cfg, reg, up, sk >>

\* if self.enable_contrast_enhancement: CLAHE
PreContrast ==
  /\ pre.pc = "contrast"
  /\ pre' = [ (IF pre.adapter[1].enable_contrast_enhancement
                 THEN Applied(pre, "contrast") ELSE pre)
                EXCEPT !.pc = "deskew" ]
  /\ UNCHANGED << disk, pdfs, last_confidence, run, started, allocs, root0,
                  metrics, an, ad, st, ctl, cfg, reg, up, sk >>

\* if self.enable_deskewing: _correct_skew is entered; edges, lines, the
\* angles of the sampled lines and their median
PreSkewEstimate ==
  /\ pre.pc = "deskew"
  /\ IF ~ pre.adapter[1].enable_deskewing
       THEN pre' = [ pre EXCEPT !.pc = "binarize" ]
       ELSE LET r == Applied(pre, "deskew")
            IN \/ \E fault \in EstimateFaults : pre' = correct_skew_except(r, fault)
               \/ \E lines \in HoughResults :
                    LET angles == IF lines # None /\ Len(lines[1]) > 0
                                    THEN collect_angles(lines[1]) ELSE <<>>
                    IN pre' = [ r EXCEPT
                                  !.pc = "rotate",
                                  !.skew = [ lines |-> lines, angles |-> angles,
                                             rotation_angle |->
                                               IF angles # <<>> THEN Some(median(angles))
                                               ELSE None ] ]
  /\ UNCHANGED << disk, pdfs, last_confidence, run, started, allocs, root0,
                  metrics, an, ad, st, ctl, cfg, reg, up, sk >>

\* the rotation when the angle is significant, and the return of _correct_skew
PreSkewRotate ==
  /\ pre.pc = "rotate"
  /\ IF pre.skew.rotation_angle # None /\ significant(pre.skew.rotation_angle[1])
       THEN \/ pre' = correct_skew_except(pre, "warpAffine")
            \/ pre' = [ pre EXCEPT
                          !.pc = "binarize", !.skew = NoSkew,
                          !.image = Some([ pre.image[1] EXCEPT
                                             !.rotation = pre.skew.rotation_angle ]) ]
       ELSE pre' = [ pre EXCEPT !.pc = "binarize", !.skew = NoSkew ]
  /\ UNCHANGED << disk, pdfs, last_confidence, run, started, allocs, root0,
                  metrics, an, ad, st, ctl, cfg, reg, up, sk >>

\* adaptiveThreshold
PreBinarize ==
  /\ pre.pc = "binarize"
  /\ pre' = [ Applied(pre, "adaptive_threshold") EXCEPT !.pc = "close" ]
  /\ UNCHANGED << disk, pdfs, last_confidence, run, started, allocs, root0,
                  metrics, an, ad, st, ctl, cfg, reg, up, sk >>

\* morphologyEx(MORPH_CLOSE)
PreClose ==
  /\ pre.pc = "close"
  /\ pre' = [ Applied(pre, "close") EXCEPT !.pc = "open" ]
  /\ UNCHANGED << disk, pdfs, last_confidence, run, started, allocs, root0,
                  metrics, an, ad, st, ctl, cfg, reg, up, sk >>

\* morphologyEx(MORPH_OPEN) and the return of _preprocess_image
PreOpen ==
  /\ pre.pc = "open"
  /\ pre' = [ Applied(pre, "open") EXCEPT !.pc = "engine" ]
  /\ UNCHANGED << disk, pdfs, last_confidence, run, started, allocs, root0,
                  metrics, an, ad, st, ctl, cfg, reg, up, sk >>

\* image_to_string on the processed page; nothing catches an error
PreEngine ==
  /\ pre.pc = "engine"
  /\ \/ \E e \in EngineErrors :
          pre' = [ pre EXCEPT !.pc = "raised", !.raised = Some(e), !.fault = "none",
                              !.extracted_text = <<>> ]
     \/ pre' = [ pre EXCEPT !.pc = "page", !.i = @ + 1, !.fault = "none",
                            !.extracted_text = Append(@, << "x" >>) ]
  /\ UNCHANGED << disk, pdfs, last_confidence, run, started, allocs, root0,
                  metrics, an, ad, st, ctl, cfg, reg, up, sk >>

\* the loop is over: the joined text is returned
PreExtractReturn ==
  /\ pre.pc = "page"
  /\ pre.i = pre.n
  /\ pre' = [ pre EXCEPT !.pc = "returned",
                         !.result = Some(join(<< "\n", "\n" >>, pre.extracted_text)) ]
  /\ UNCHANGED << disk, pdfs, last_confidence, run, started, allocs, root0,
                  metrics, an, ad, st, ctl, cfg, reg, up, sk >>

\* ------------------------------------------- skew of a page that is known
\* the inclinations of a page, in whole degrees, counter-clockwise positive as
\* in cv2.getRotationMatrix2D
SkewAngles == { -46, -45, -44, -1, 0, 1, 44, 45, 46 }

\* the row cv2.HoughLines reports for a text baseline of a page rotated by t:
\* the line's normal is at 90 - t degrees
Baseline(t) == HoughLine(90 - t)
\* the row for a vertical rule of that page: the normal is at -t, that is
\* 180 - t for t > 0
Rule(t) == HoughLine((180 - t) % 180)

\* what HoughLines may return for a page of straight text rotated by t: None,
\* or up to MaxLines rows, each a baseline, a rule or a malformed row
HoughLinesOf(t) ==
  { None } \cup
  { Some(rows) : rows \in UNION { [ 1 .. m -> { Baseline(t), Rule(t), BadLine } ] :
                                    m \in 0 .. MaxLines } }

\* the median of the sampled angles, when lines were found and some angle kept
rotation_angle_of(lines) ==
  IF lines # None /\ Len(lines[1]) > 0 /\ collect_angles(lines[1]) # <<>>
    THEN Some(median(collect_angles(lines[1])))
    ELSE None

\* t: the inclination of the page given; lines: what HoughLines returned;
\* rotation_angle: the estimate; rotated: the angle warpAffine was called with
SkIdle ==
  [ called |-> FALSE, t |-> 0, lines |-> None, rotation_angle |-> None,
    rotated |-> None ]

\* _correct_skew(image) on a page rotated by t, from entry to return; raises:
\* a cv2 call inside the try block raises and the except clause swallows it
CorrectSkew(t, lines, raises) ==
  /\ LET estimate == rotation_angle_of(lines)
     IN sk' = [ called |-> TRUE, t |-> t, lines |-> lines,
                rotation_angle |-> IF raises = "Canny" THEN None ELSE estimate,
                rotated |-> IF raises = "none" /\ estimate # None /\ significant(estimate[1])
                              THEN estimate ELSE None ]
  /\ UNCHANGED << disk, pdfs, last_confidence, run, started, allocs, root0, metrics,
                  an, ad, pre, st, ctl, cfg, reg, up >>

\* ------------------------------------------------- system configuration
\* DefaultSystemConfig(): the object get_system_config returns and caches,
\* with the fields the update endpoint and the adapter factory use
DefaultSystemConfig ==
  [ output_directory |-> "./resultado", input_directory |-> "./pdfs",
    default_language |-> "spa", default_dpi |-> 300,
    confidence_threshold |-> 60,
    engine_type |-> ENGINE_TYPE_BASIC, language |-> "spa", dpi |-> 300 ]

\* the keys of get_available_languages()
available_langs == { "spa", "eng", "por", "fra", "deu", "ita" }

\* the profiles dict of update_system_config
profiles ==
  [ p \in { "fast", "balanced", "high" } |->
      CASE p = "fast" -> [ dpi |-> 150, confidence_threshold |-> 50 ]
        [] p = "balanced" -> [ dpi |-> 300, confidence_threshold |-> 60 ]
        [] p = "high" -> [ dpi |-> 600, confidence_threshold |-> 80 ] ]

\* the bodies a SystemConfigUpdate may carry (None: field not sent)
SystemConfigUpdates ==
  [ output_directory : { None, Some("out") },
    input_directory : { None, Some("in") },
    default_language : { None, Some("eng"), Some("xx") },
    default_dpi : { None, Some(150), Some(1000) },
    confidence_threshold : { None, Some(101) },
    quality_profile : { None, Some("fast"), Some("ultra") } ]

\* the truth value Python gives an optional string / number in an if
TruthyStr(field) == field # None /\ field[1] # ""
TruthyNum(field) == field # None /\ field[1] # 0

\* what a handler answers: the status code, and the configuration it leaves
Answer(status_code, config) == [ status_code |-> status_code, config |-> config ]

\* the quality-profile block, the last of update_system_config
update_quality_profile(config, u) ==
  IF ~ TruthyStr(u.quality_profile) THEN Answer(200, config)
  ELSE IF u.quality_profile[1] \in DOMAIN profiles
    THEN Answer(200,
           [ config EXCEPT
               !.default_dpi = profiles[u.quality_profile[1]].dpi,
               !.confidence_threshold = profiles[u.quality_profile[1]].confidence_threshold ])
  ELSE Answer(400, config)

\* the confidence-threshold block and what follows it
update_confidence_threshold(config, u) ==
  IF ~ TruthyNum(u.confidence_threshold) THEN update_quality_profile(config, u)
  ELSE IF ~ (0 <= u.confidence_threshold[1] /\ u.confidence_threshold[1] <= 100)
    THEN Answer(400, config)
  ELSE update_quality_profile(
         [ config EXCEPT !.confidence_threshold = u.confidence_threshold[1] ], u)

\* the DPI block and what follows it
update_default_dpi(config, u) ==
  IF ~ TruthyNum(u.default_dpi) THEN update_confidence_threshold(config, u)
  ELSE IF ~ (72 <= u.default_dpi[1] /\ u.default_dpi[1] <= 600)
    THEN Answer(400, config)
  ELSE update_confidence_threshold([ config EXCEPT !.default_dpi = u.default_dpi[1] ], u)

\* the language block and what follows it
update_default_language(config, u) ==
  IF ~ TruthyStr(u.default_language) THEN update_default_dpi(config, u)
  ELSE IF u.default_language[1] \notin available_langs
    THEN Answer(400, config)
  ELSE update_default_dpi([ config EXCEPT !.default_language = u.default_language[1] ], u)

\* the input-directory block and what follows it; mkdir_ok: the mkdir succeeds
update_input_directory(config, u, mkdir_ok) ==
  IF ~ TruthyStr(u.input_directory) THEN update_default_language(config, u)
  ELSE IF ~ mkdir_ok
    THEN Answer(500, [ config EXCEPT !.input_directory = u.input_directory[1] ])
  ELSE update_default_language(
         [ config EXCEPT !.input_directory = u.input_directory[1] ], u)

\* update_system_config(config_update, config): the blocks in the order of
\* the code, each assigning to the shared object before the next one validates
update_system_config(config, u, mkdir_ok) ==
  IF ~ TruthyStr(u.output_directory) THEN update_input_directory(config, u, mkdir_ok)
  ELSE IF ~ mkdir_ok
    THEN Answer(500, [ config EXCEPT !.output_directory = u.output_directory[1] ])
  ELSE update_input_directory(
         [ config EXCEPT !.output_directory = u.output_directory[1] ], u, mkdir_ok)

\* config: the cached object; before, status_code: the configuration the
\* last update request found and the status it was answered with
CfgIdle ==
  [ config |-> DefaultSystemConfig, before |-> None, status_code |-> None ]

\* POST /system/config/update from entry to response
UpdateSystemConfig(config_update, mkdir_ok) ==
  /\ LET answer == update_system_config(cfg.config, config_update, mkdir_ok)
     IN cfg' = [ config |-> answer.config, before |-> Some(cfg.config),
                 status_code |-> Some(answer.status_code) ]
  /\ UNCHANGED << disk, pdfs, last_confidence, run, started, allocs, root0, metrics,
                  an, ad, pre, st, ctl, reg, up, sk >>

\* ------------------------------------------------------ upload registry
\* the ids upload_file may give a file, and the types it may detect
FileIds == { "f1", "f2" }
DetectedTypes == { "native", "scanned" }
\* ProcessRequest.engine_type
RequestedEngines == { "auto", ENGINE_TYPE_BASIC, ENGINE_TYPE_OPENCV }

\* UploadedFile(..., status="uploaded") as upload_file registers it
UploadedFile(pdf_type) == [ status |-> "uploaded", pdf_type |-> pdf_type ]

\* get_document_processor(config): ProcessDocument around the adapter the
\* factory builds for the shared configuration, the mock if the factory raises
get_document_processor(config) ==
  IF create_ocr_adapter(config).returned # None
    THEN [ cls |-> "ProcessDocument", ocr |-> create_ocr_adapter(config).returned ]
    ELSE [ cls |-> "MockDocumentProcessor", ocr |-> None ]

\* the engine process_uploaded_file derives for the request
derived_engine_type(requested, pdf_type) ==
  IF requested = "auto"
    THEN IF pdf_type = "scanned" THEN ENGINE_TYPE_OPENCV ELSE ENGINE_TYPE_BASIC
    ELSE requested

\* the exception raised again without touching the registry
on_exception_reraise(db, file_id) == db

\* the two except clauses of process_uploaded_file: the entry, if there is
\* one, gets the status "error" before the exception leaves the handler
on_exception(db, file_id) ==
  IF db[file_id] # None
    THEN [ db EXCEPT ![file_id] = Some([ db[file_id][1] EXCEPT !.status = "error" ]) ]
    ELSE db

\* the registry with the status of entry file_id set
with_status(db, file_id, status) ==
  [ db EXCEPT ![file_id] = Some([ db[file_id][1] EXCEPT !.status = status ]) ]

\* no call of process_uploaded_file in progress, none answered
NoCall ==
  [ pc |-> "idle", file_id |-> "", requested |-> "", engine_type |-> None,
    adapter |-> None, seen |-> None, before |-> None, status_code |-> None ]

\* db: uploaded_files_db (None: no entry); files: the ids whose stored file
\* exists; h: the call of process_uploaded_file in progress or answered last
RegIdle == [ db |-> [ id \in FileIds |-> None ], files |-> {}, h |-> NoCall ]

\* the handler is left with status_code
Answered(h, status_code) ==
  [ h EXCEPT !.pc = "idle", !.status_code = Some(status_code) ]

\* POST /files/upload: the file is stored and registered
UploadFile(file_id, pdf_type) ==
  /\ reg.h.pc = "idle"
  /\ reg.db[file_id] = None
  /\ reg' = [ db |-> [ reg.db EXCEPT ![file_id] = Some(UploadedFile(pdf_type)) ],
              files |-> reg.files \cup { file_id },
              h |-> NoCall ]
  /\ UNCHANGED << disk, pdfs, last_confidence, run, started, allocs, root0, metrics,
                  an, ad, pre, st, ctl, cfg, up, sk >>

\* DELETE /files/{file_id} for a registered file
DeleteUploadedFile(file_id) ==
  /\ reg.h.pc = "idle"
  /\ reg.db[file_id] # None
  /\ reg' = [ db |-> [ reg.db EXCEPT ![file_id] = None ],
              files |-> reg.files \ { file_id },
              h |-> NoCall ]
  /\ UNCHANGED << disk, pdfs, last_confidence, run, started, allocs, root0, metrics,
                  an, ad, pre, st, ctl, cfg, up, sk >>

\* a stored file disappears from the upload directory
RemoveStoredFile(file_id) ==
  /\ file_id \in reg.files
  /\ reg' = [ reg EXCEPT !.files = @ \ { file_id } ]
  /\ UNCHANGED << disk, pdfs, last_confidence, run, started, allocs, root0, metrics,
                  an, ad, pre, st, ctl, cfg, up, sk >>

\* process_uploaded_file from entry up to the call of the processor: the two
\* 404 checks, status = "processing", the engine choice
ProcessBegin(file_id, requested) ==
  /\ reg.h.pc = "idle"
  /\ LET h == [ NoCall EXCEPT !.file_id = file_id, !.requested = requested,
                              !.before = Some(reg.db) ]
     IN IF reg.db[file_id] = None
          THEN reg' = [ reg EXCEPT !.db = on_exception(reg.db, file_id),
                                   !.h = Answered(h, 404) ]
        ELSE IF file_id \notin reg.files
          THEN reg' = [ reg EXCEPT !.db = on_exception(reg.db, file_id),
                                   !.h = Answered(h, 404) ]
        ELSE reg' = [ reg EXCEPT
                        !.db = with_status(reg.db, file_id, "processing"),
                        !.h = [ h EXCEPT !.pc = "execute",
                                  !.engine_type = Some(derived_engine_type(
                                       requested, reg.db[file_id][1].pdf_type)) ] ]
  /\ UNCHANGED << disk, pdfs, last_confidence, run, started, allocs, root0, metrics,
                  an, ad, pre, st, ctl, cfg, up, sk >>

\* document_processor.execute(pdf_path=...) on the injected processor: it
\* returns a Document or raises (it raises when the stored file is gone)
ProcessorExecute ==
  /\ reg.h.pc = "execute"
  /\ LET processor == get_document_processor(cfg.config)
         h == [ reg.h EXCEPT !.seen = Some(reg.db[reg.h.file_id][1].status),
                             !.adapter = processor.ocr ]
     IN \/ /\ reg.h.file_id \in reg.files
           /\ reg' = [ reg EXCEPT !.h = [ h EXCEPT !.pc = "output" ] ]
        \/ reg' = [ reg EXCEPT !.db = on_exception(reg.db, reg.h.file_id),
                               !.h = Answered(h, 500) ]
  /\ UNCHANGED << disk, pdfs, last_confidence, run, started, allocs, root0, metrics,
                  an, ad, pre, st, ctl, cfg, up, sk >>

\* the rest of process_uploaded_file: the output files are written, the page
\* count read, status = "processed", the ProcessResult built and returned; a
\* failure before or after the status assignment ends in the except clause
ProcessFinish ==
  /\ reg.h.pc = "output"
  /\ \/ reg' = [ reg EXCEPT !.db = with_status(reg.db, reg.h.file_id, "processed"),
                            !.h = Answered(reg.h, 200) ]
     \/ reg' = [ reg EXCEPT !.db = on_exception(reg.db, reg.h.file_id),
                            !.h = Answered(reg.h, 500) ]
     \/ reg' = [ reg EXCEPT
                   !.db = on_exception(with_status(reg.db, reg.h.file_id, "processed"),
                                       reg.h.file_id),
                   !.h = Answered(reg.h, 500) ]
  /\ UNCHANGED << disk, pdfs, last_confidence, run, started, allocs, root0, metrics,
                  an, ad, pre, st, ctl, cfg, up, sk >>

\* ------------------------------------------- upload-and-process endpoints
\* file.filename of an upload
Filenames == { "a.pdf", "b.pdf" }

\* temp_path = f"/tmp/{file.filename}" of upload_and_process_document_auto
NamedTemp(filename) == [ kind |-> "named", name |-> filename, n |-> 0 ]
\* temp_file.name of tempfile.NamedTemporaryFile(delete=False, suffix='.pdf'):
\* a name no other call is given
UniqueTemp(n) == [ kind |-> "unique", name |-> "", n |-> n ]
\* the temporary file of a request of the plain endpoint
PlainTemp(filename, n) == UniqueTemp(n)

NoRequest ==
  [ pc |-> "idle", handler |-> "", temp_path |-> None, fd |-> 0, status_code |-> None ]

\* tmp: the temporary directory, path -> (inode, who wrote its content);
\* req: the request each worker is handling; opened: files opened so far;
\* events: history of what a request did to a temporary file and whose it was
UpIdle ==
  [ tmp |-> [ path \in {} |-> <<>> ], req |-> [ p \in Procs |-> NoRequest ],
    opened |-> 0, events |-> {} ]

\* the requests other than p that are between opening path and cleaning it up
OthersUsing(p, path) ==
  { q \in Procs \ {p} : up.req[q].pc = "read" /\ up.req[q].temp_path = Some(path) }

\* the events of operation op by request p on path: one per other request
\* whose temporary file it is, or one of its own if it is nobody else's
Events(op, p, path) ==
  IF OthersUsing(p, path) = {}
    THEN { [ op |-> op, by |-> p, of |-> p ] }
    ELSE { [ op |-> op, by |-> p, of |-> q ] : q \in OthersUsing(p, path) }

\* the temporary directory with path bound to file
PutTemp(path, file) ==
  [ x \in DOMAIN up.tmp \cup { path } |-> IF x = path THEN file ELSE up.tmp[x] ]

\* open(temp_path, "wb") / NamedTemporaryFile(...) up to the await of
\* file.read(): an existing file is truncated, a missing one created
OpenTemp(p, handler, path) ==
  /\ up.req[p].pc = "idle"
  /\ up.opened < MaxRuns
  /\ LET inode == IF path \in DOMAIN up.tmp THEN up.tmp[path].inode ELSE up.opened + 1
     IN up' = [ tmp |-> PutTemp(path, [ inode |-> inode, wrote |-> None ]),
                req |-> [ up.req EXCEPT ![p] =
                            [ pc |-> "read", handler |-> handler, temp_path |-> Some(path),
                              fd |-> inode, status_code |-> None ] ],
                opened |-> up.opened + 1,
                events |-> up.events \cup
                             (IF path \in DOMAIN up.tmp
                                THEN Events("truncate", p, path) ELSE {}) ]
  /\ UNCHANGED << disk, pdfs, last_confidence, run, started, allocs, root0, metrics,
                  an, ad, pre, st, ctl, cfg, reg, sk >>

\* upload_and_process_document_auto is entered
AutoOpen(p, filename) == OpenTemp(p, "auto", NamedTemp(filename))

\* upload_and_process_document is entered
PlainOpen(p, filename) == OpenTemp(p, "plain", PlainTemp(filename, up.opened + 1))

\* file.read() has returned: the content is written through the open file,
\* the type is detected from temp_path (auto), the processor is called with
\* Path(temp_path), which in this module is fastapi.Path and no file-system
\* path, so the call fails and the handler answers 500; the finally clause
\* unlinks temp_path if it exists
Resume(p) ==
  /\ up.req[p].pc = "read"
  /\ LET path == up.req[p].temp_path[1]
         mine == path \in DOMAIN up.tmp /\ up.tmp[path].inode = up.req[p].fd
         written == IF mine THEN PutTemp(path, [ inode |-> up.req[p].fd, wrote |-> Some(p) ])
                    ELSE up.tmp
         detected == IF up.req[p].handler = "auto" /\ path \in DOMAIN written
                       THEN { [ op |-> "read", by |-> p,
                                of |-> IF written[path].wrote = None THEN 0
                                       ELSE written[path].wrote[1] ] }
                       ELSE {}
         unlinked == IF path \in DOMAIN written THEN Events("unlink", p, path) ELSE {}
     IN up' = [ tmp |-> [ x \in DOMAIN written \ { path } |-> written[x] ],
                req |-> [ up.req EXCEPT ![p] = [ NoRequest EXCEPT !.status_code = Some(500) ] ],
                opened |-> up.opened,
                events |-> up.events \cup detected \cup unlinked ]
  /\ UNCHANGED << disk, pdfs, last_confidence, run, started, allocs, root0, metrics,
                  an, ad, pre, st, ctl, cfg, reg, sk >>

\* ------------------------------------------- FileStorage, save and read
\* saves made through the storage port in one behaviour
MaxSaves == 2

RECURSIVE Str(_)
\* the string made of a sequence of characters
Str(chars) == IF chars = <<>> THEN "" ELSE chars[1] \o Str(Tail(chars))

\* document names handed to the storage: the stems of a.pdf and a[1].pdf
NameChars == { << "a" >>, << "a", "[", "1", "]" >> }
\* the suffix _create_unique_dir appends for counter k
CounterChars(k) == IF k = 0 THEN <<>> ELSE << "_", "0", Digit(k) >>
\* the names a directory of the output root can have
DirChars == { n \o CounterChars(k) : n \in NameChars, k \in 0 .. MaxSaves }
\* the endings of the generated files
TextSuffix == << "_", "t", "e", "x", "t", "o", ".", "t", "x", "t" >>
TablesSuffix == << "_", "t", "a", "b", "l", "a", "s", ".", "j", "s", "o", "n" >>
PdfSuffix == << "_", "o", "r", "i", "g", "i", "n", "a", "l", ".", "p", "d", "f" >>
MetadataSuffix == << "_", "m", "e", "t", "a", "d", "a", "t", "a", ".", "j", "s", "o", "n" >>
\* the characters of a generated file's name
FileChars(file) ==
  CHOOSE c \in { d \o s : d \in DirChars,
                          s \in { TextSuffix, TablesSuffix, PdfSuffix, MetadataSuffix } } :
    Str(c) = file

\* the texts and tables handed to the storage
StorageTexts == { <<>>, << "h", "\n", "i" >> }
StorageTables == { <<>>, << << <<"c">> >> >> }

\* the position of the "]" that closes the class opened at pat[1], 0 if none
\* (a "]" right after the "[" or after "[!" is a member of the class)
ClassEnd(pat) ==
  LET from == IF Len(pat) >= 2 /\ pat[2] = "!" THEN 4 ELSE 3
      ends == { j \in from .. Len(pat) : pat[j] = "]" }
  IN IF ends = {} THEN 0 ELSE CHOOSE j \in ends : \A k \in ends : j <= k

\* whether character c is accepted by the class pat[1 .. end]
InClass(c, pat, end) ==
  IF pat[2] = "!"
    THEN \A j \in 3 .. (end - 1) : pat[j] # c
    ELSE \E j \in 2 .. (end - 1) : pat[j] = c

RECURSIVE fnmatch(_, _)
\* the pattern matching of Path.glob on one path component: * ? [seq] [!seq]
fnmatch(name, pat) ==
  IF pat = <<>> THEN name = <<>>
  ELSE IF pat[1] = "*"
    THEN fnmatch(name, Tail(pat)) \/ (name # <<>> /\ fnmatch(Tail(name), pat))
  ELSE IF pat[1] = "?"
    THEN name # <<>> /\ fnmatch(Tail(name), Tail(pat))
  ELSE IF pat[1] = "[" /\ ClassEnd(pat) > 0
    THEN /\ name # <<>>
         /\ InClass(name[1], pat, ClassEnd(pat))
         /\ fnmatch(Tail(name), SubSeq(pat, ClassEnd(pat) + 1, Len(pat)))
  ELSE name # <<>> /\ name[1] = pat[1] /\ fnmatch(Tail(name), Tail(pat))

\* list(doc_dir.glob(pattern)): the files of the directory the pattern matches
glob(files, pat) == { f \in DOMAIN files : fnmatch(FileChars(f), pat) }

\* the first element of a glob result, when there is one
First(matches) == IF matches = {} THEN { None } ELSE { Some(f) : f \in matches }

RECURSIVE read_text(_)
\* f.read() of a file opened in text mode: \r\n and \r are read as \n
read_text(content) ==
  IF content = <<>> THEN <<>>
  ELSE IF content[1] = "\r"
    THEN << "\n" >> \o read_text(IF Len(content) >= 2 /\ content[2] = "\n"
                                   THEN SubSeq(content, 3, Len(content))
                                   ELSE Tail(content))
  ELSE << content[1] >> \o read_text(Tail(content))

\* json.load of a file json.dump wrote: lists, strings and null come back as
\* the lists, strings and None that were written
json_load(content) == content

RECURSIVE create_unique_dir(_, _, _, _)
\* the loop of _create_unique_dir from unique_dir and counter, in a root with entries
create_unique_dir(base_name, unique_dir, counter, entries) ==
  IF unique_dir \in entries
    THEN create_unique_dir(base_name, unique_name(base_name, counter), counter + 1, entries)
    ELSE unique_dir

\* saved: history of the save_document calls; got: the answer of the last
\* get_document, kept until the storage changes again
StIdle == [ saved |-> <<>>, got |-> None ]

\* storage.save_document(document) from entry to return; k = 0: every write
\* succeeds, k > 0: write k raises
SaveDocument(name, text, tbls, path) ==
  /\ Len(st.saved) < MaxSaves
  /\ LET document == EntityDocument(Str(name), text, tbls, PathStr(path))
         doc_dir == create_unique_dir(document.name, document.name, 1, root)
         plan == WritePlan(document, doc_dir, path \in pdfs)
     IN \E k \in 0 .. Len(plan) :
          /\ disk' = PutDir(doc_dir,
                            WriteInto(EmptyDir, plan, IF k = 0 THEN Len(plan) ELSE k - 1))
          /\ st' = [ saved |-> Append(st.saved, [ dir |-> doc_dir, text |-> text,
                                                  tables |-> tbls, returned |-> k = 0 ]),
                     got |-> None ]
  /\ UNCHANGED << pdfs, last_confidence, run, started, allocs, root0, metrics, an,
                  ad, pre, ctl, cfg, reg, up, sk >>

\* the Document get_document builds from the files it found
StoredDocument(document_id, files, metadata_file, text_file, tables_file) ==
  [ EntityDocument(document_id,
                   IF text_file = None THEN <<>> ELSE read_text(files[text_file[1]]),
                   IF tables_file = None THEN <<>> ELSE json_load(files[tables_file[1]]),
                   None)
      EXCEPT !.confidence = json_load(files[metadata_file[1]]).confidence,
             !.processing_time = json_load(files[metadata_file[1]]).processing_time ]

\* storage.get_document(document_id)
GetDocument(id) ==
  /\ LET document_id == Str(id)
     IN IF document_id \notin root
          THEN st' = [ st EXCEPT !.got = Some([ id |-> document_id, document |-> None ]) ]
        ELSE IF glob(disk[document_id], id \o MetadataSuffix) = {}
          THEN st' = [ st EXCEPT !.got = Some([ id |-> document_id, document |-> None ]) ]
        ELSE \E metadata_file \in First(glob(disk[document_id], id \o MetadataSuffix)),
                text_file \in First(glob(disk[document_id], id \o TextSuffix)),
                tables_file \in First(glob(disk[document_id], id \o TablesSuffix)) :
               st' = [ st EXCEPT !.got =
                         Some([ id |-> document_id,
                                document |-> Some(StoredDocument(document_id,
                                                    disk[document_id], metadata_file,
                                                    text_file, tables_file)) ]) ]
  /\ UNCHANGED << disk, pdfs, last_confidence, run, started, allocs, root0, metrics,
                  an, ad, pre, ctl, cfg, reg, up, sk >>

\* -------------------------------------------------------- specifications
Init ==
  /\ \E entries \in SUBSET InitEntries : disk = [ d \in entries |-> EmptyDir ]
  /\ pdfs = Paths
  /\ last_confidence = 0
  /\ run = [ p \in Procs |-> IdleRun ]
  /\ started = 0
  /\ allocs = <<>>
  /\ root0 = root
  /\ metrics = NoMetrics
  /\ an = AnIdle
  /\ ad = AdIdle
  /\ pre = PreIdle
  /\ st = StIdle
  /\ ctl = None
  /\ cfg = CfgIdle
  /\ reg = RegIdle
  /\ up = UpIdle
  /\ sk = SkIdle

StartAny(p) == \E path \in Paths : Start(p, path)

Work(p) ==
  \/ ExtractText(p)
  \/ ExtractTables(p)
  \/ SaveBegin(p)
  \/ ExistsCheck(p)
  \/ Mkdir(p)
  \/ WriteFiles(p)
  \/ Assemble(p)

Env == \E path \in Paths : DeleteSource(path)

\* one invocation of the orchestrator at a time
Next == StartAny(1) \/ Work(1) \/ Env

Spec == Init /\ [][Next]_vars

\* one invocation at a time whose allocation loop keeps running: the loop is
\* straight-line code of one thread, exists() and mkdir() return
SpecAlloc == Init /\ [][Next]_vars /\ WF_vars(ExistsCheck(1)) /\ WF_vars(Mkdir(1))

\* the orchestrator called through DocumentController.process_pdf, followed
\* up to the return of process_pdf
NextController == (ctl = None /\ Next) \/ ProcessPdfReturn(1)

SpecController == Init /\ [][NextController]_vars

\* invocations that overlap on the same output root, one per process
NextConc ==
  \/ \E p \in Procs : (run[p].pc = "idle" /\ StartAny(p)) \/ Work(p)
  \/ Env

SpecConc == Init /\ [][NextConc]_vars

\* the analyser alone
NextAnalyze ==
  \/ \E n \in 0 .. MaxPages : AnalyzeOpen(n)
  \/ \E text \in PageTexts, ntables \in PageTableCounts : PlumberPage(text, ntables)
  \/ FitzOpen
  \/ \E nimages \in PageImageCounts, fonts \in BOOLEAN : FitzPage(nimages, fonts)
  \/ AnalyzeFinish
  \/ \E e \in ReaderErrors : AnalyzeRaise(e)
  \/ \E pdf_type \in PDFTypes : GetOptimalConfig(pdf_type)

\* the analyser does not touch the output root: it starts empty
InitAnalyze == Init /\ root = {}

SpecAnalyze == InitAnalyze /\ [][NextAnalyze]_vars

\* the factory and the adapters it builds
NextAdapter ==
  \/ \E config \in SystemConfigs : CreateOcrAdapter(config)
  \/ \E path \in Paths, n \in 0 .. MaxPages : ExtractTextBegin(path, n)
  \/ ExtractTextPage
  \/ ExtractTextReturn

SpecAdapter == InitAnalyze /\ [][NextAdapter]_vars

\* the storage port called directly: saves, and reads of what was saved
NextStorage ==
  \/ \E name \in NameChars, text \in StorageTexts, tbls \in StorageTables :
       SaveDocument(name, text, tbls, [ dir |-> "in", name |-> << Str(name), "pdf" >> ])
  \/ \E id \in DirChars : GetDocument(id)

SpecStorage == InitAnalyze /\ [][NextStorage]_vars

\* the configuration endpoint
NextConfig ==
  \E config_update \in SystemConfigUpdates, mkdir_ok \in BOOLEAN :
    UpdateSystemConfig(config_update, mkdir_ok)

SpecConfig == InitAnalyze /\ [][NextConfig]_vars

\* the upload registry and its processing endpoint
NextFiles ==
  \/ \E file_id \in FileIds, pdf_type \in DetectedTypes : UploadFile(file_id, pdf_type)
  \/ \E file_id \in FileIds : DeleteUploadedFile(file_id)
  \/ \E file_id \in FileIds : RemoveStoredFile(file_id)
  \/ \E file_id \in FileIds, requested \in RequestedEngines : ProcessBegin(file_id, requested)
  \/ ProcessorExecute
  \/ ProcessFinish

SpecFiles == InitAnalyze /\ [][NextFiles]_vars

\* upload requests handled concurrently
NextUpload ==
  \/ \E p \in Procs, filename \in Filenames : AutoOpen(p, filename)
  \/ \E p \in Procs, filename \in Filenames : PlainOpen(p, filename)
  \/ \E p \in Procs : Resume(p)

SpecUpload == InitAnalyze /\ [][NextUpload]_vars

\* skew correction of pages whose inclination is known
NextSkew ==
  \E t \in SkewAngles, raises \in { "none", "Canny", "warpAffine" } :
    \E lines \in HoughLinesOf(t) :
      /\ raises = "Canny" => lines = None
      /\ CorrectSkew(t, lines, raises)

SpecSkew == InitAnalyze /\ [][NextSkew]_vars

\* the adapter with preprocessing flags, page by page and transform by transform
NextPreprocess ==
  \/ \E deskew, denoise, contrast \in BOOLEAN : PreConstruct(deskew, denoise, contrast)
  \/ \E path \in Paths, n \in 0 .. MaxPages : PreExtractBegin(path, n)
  \/ PreGrayscale
  \/ PreDenoise
  \/ PreContrast
  \/ PreSkewEstimate
  \/ PreSkewRotate
  \/ PreBinarize
  \/ PreClose
  \/ PreOpen
  \/ PreEngine
  \/ PreExtractReturn

SpecPreprocess == InitAnalyze /\ [][NextPreprocess]_vars


\* ================================================================ claims
\* the base names the runs can use, and the numbered names of a base
Stems == { "a", "a_01" }
Numbered(N, k) ==
  CASE k = 0 -> N
    [] k = 1 -> N \o "_01" [] k = 2 -> N \o "_02" [] k = 3 -> N \o "_03"
    [] k = 4 -> N \o "_04" [] k = 5 -> N \o "_05" [] k = 6 -> N \o "_06"
    [] k = 7 -> N \o "_07" [] k = 8 -> N \o "_08" [] k = 9 -> N \o "_09"
Family(N) == { Numbered(N, k) : k \in 0 .. 9 }

\* C1: from an output root with no entry N or N_kk, successive saves of base
\* name N are allocated N, N_01, N_02, ... in that order, and every save is
\* allocated a directory that no earlier save was allocated and that was not
\* in the root before.
C1_NumberedInOrder ==
  /\ \A N \in Stems :
       (root0 \cap Family(N) = {} /\ \A i \in 1 .. Len(allocs) : allocs[i].base = N)
         => \A i \in 1 .. Len(allocs) : allocs[i].dir = Numbered(N, i - 1)
  /\ \A i \in 1 .. Len(allocs) :
       /\ allocs[i].dir \notin root0
       /\ \A j \in 1 .. (i - 1) : allocs[j].dir # allocs[i].dir

\* three saves of base name a into a root without a-entries: the third is a_02
C1_Witness ==
  /\ root0 \cap Family("a") = {}
  /\ Len(allocs) = 3
  /\ \A i \in 1 .. 3 : allocs[i].base = "a"
  /\ allocs[3].dir = "a_02"

\* C2: under every interleaving of concurrent saves, no two saves are
\* allocated the same directory, so every allocated directory has one writer.
C2_AtomicReservation ==
  \A i, j \in 1 .. Len(allocs) : i # j => allocs[i].dir # allocs[j].dir

\* the rules of the decision tree, on the counts of the metrics record
ImagesPerPageGt(m, n, d) == m.total_pages > 0 /\ m.total_images * d > n * m.total_pages
TablesPerPageGt(m, n, d) == m.total_pages > 0 /\ m.total_tables * d > n * m.total_pages
ScannedRule(m) ==
  /\ m.has_fonts = FALSE
  /\ 10 * m.text_extractable_pages < 3 * m.total_pages
  /\ ImagesPerPageGt(m, 1, 2)
TableRule(m) == TablesPerPageGt(m, 4, 5)
ImageRule(m) == ImagesPerPageGt(m, 3, 2)
NativeRule(m) ==
  /\ m.has_fonts = TRUE
  /\ 10 * m.text_extractable_pages > 8 * m.total_pages
  /\ m.total_pages > 0 /\ m.total_text_length > 100 * m.total_pages

\* C3: the type returned for a metrics record is the one of the first rule,
\* in the order SCANNED, TABLE_HEAVY, IMAGE_HEAVY, NATIVE_TEXT, that holds, and
\* MIXED when none holds.
C3_FirstMatchWins ==
  an.pc = "done" =>
    LET t == an.pdf_type[1]
        m == metrics
    IN /\ t \in { "SCANNED", "TABLE_HEAVY", "IMAGE_HEAVY", "NATIVE_TEXT", "MIXED" }
       /\ t = "SCANNED" <=> ScannedRule(m)
       /\ t = "TABLE_HEAVY" <=> ~ ScannedRule(m) /\ TableRule(m)
       /\ t = "IMAGE_HEAVY" <=> ~ ScannedRule(m) /\ ~ TableRule(m) /\ ImageRule(m)
       /\ t = "NATIVE_TEXT" <=>
            ~ ScannedRule(m) /\ ~ TableRule(m) /\ ~ ImageRule(m) /\ NativeRule(m)
       /\ t = "MIXED" <=>
            ~ ScannedRule(m) /\ ~ TableRule(m) /\ ~ ImageRule(m) /\ ~ NativeRule(m)

\* a record on which the scanned, the table and the image rule all hold
C3_Witness ==
  /\ an.pc = "done"
  /\ ScannedRule(metrics) /\ TableRule(metrics) /\ ImageRule(metrics)
  /\ an.pdf_type = Some("SCANNED")

\* the collaborator calls of one run, in the order the orchestrator makes them
CallOrder == << "extract_text", "get_confidence", "extract_tables", "save_document" >>
IsPrefix(s, t) == Len(s) <= Len(t) /\ \A i \in 1 .. Len(s) : s[i] = t[i]
Failed(p) == run[p].pc = "failed"
Returned(p) == run[p].pc = "done"
Cause(p) == run[p].raised[1].cause

\* C4: the calls of a run are a prefix of extract_text, get_confidence,
\* extract_tables, save_document, each made at most once; a run that failed
\* made no call after the one that failed, and a run that returned made all four.
C4_CallsInOrderNoRetry ==
  \A p \in Procs :
    /\ IsPrefix(run[p].calls, CallOrder)
    /\ run[p].pc = "tables" => Len(run[p].calls) = 2
    /\ Failed(p) /\ Cause(p) = "ProcessingError" => run[p].calls = << "extract_text" >>
    /\ Failed(p) /\ Cause(p) = "RuntimeError" =>
         run[p].calls = << "extract_text", "get_confidence", "extract_tables" >>
    /\ Failed(p) /\ Cause(p) = "OSError" => run[p].calls = CallOrder
    /\ Returned(p) => run[p].calls = CallOrder

\* a run whose table extraction failed: three calls, no storage call
C4_Witness ==
  \E p \in Procs :
    /\ Failed(p) /\ Cause(p) = "RuntimeError"
    /\ Len(run[p].calls) = 3

\* C5: a run in which recognition, table extraction or storage raised returns
\* no Document and raises one ProcessingError, whatever the type raised.
C5_OnlyProcessingErrorEscapes ==
  \A p \in Procs :
    /\ Failed(p) =>
         /\ run[p].document = None
         /\ run[p].raised # None
         /\ run[p].raised[1].type = "ProcessingError"
    /\ run[p].raised # None => Failed(p)

\* storage raised an OSError and the run raised a ProcessingError
C5_Witness ==
  \E p \in Procs :
    /\ Failed(p) /\ Cause(p) = "OSError"
    /\ run[p].raised[1].type = "ProcessingError"

\* C6: when recognition or table extraction failed, storage was not invoked
\* and the output root holds the entries it held when the run began.
C6_NoDirectoryOnEarlyFailure ==
  \A p \in Procs :
    Failed(p) /\ Cause(p) \in { "ProcessingError", "RuntimeError" } =>
      /\ \A i \in 1 .. Len(run[p].calls) : run[p].calls[i] # "save_document"
      /\ root = run[p].root_start
      /\ \A d \in root : d \in run[p].root_start

\* recognition failed on a PDF that does not exist, in a root that has entries
C6_Witness ==
  \E p \in Procs :
    /\ Failed(p) /\ Cause(p) = "ProcessingError"
    /\ run[p].pdf_path \notin pdfs
    /\ run[p].root_start # {}
    /\ root = run[p].root_start

\* C7: the returned Document is named after the directory allocated for the
\* run, and the name differs from the PDF's stem exactly when the stem was
\* already an entry of the output root.
C7_NameIsAllocatedDirectory ==
  \A p \in Procs :
    Returned(p) =>
      LET name == run[p].document[1].name
          stem == run[p].pdf_path.name[1]
      IN /\ Len(allocs) > 0
         /\ allocs[Len(allocs)].by = p
         /\ name = allocs[Len(allocs)].dir
         /\ name # stem <=> stem \in run[p].root_start

\* a_01.pdf processed after two runs of a.pdf took a and a_01
C7_Witness ==
  \E p \in Procs :
    /\ Returned(p)
    /\ run[p].pdf_path.name[1] = "a_01"
    /\ run[p].document[1].name = "a_01_01"

\* C8: a run ends with an error and no Document, or with a Document whose
\* confidence, output directory, generated files and processing time are all
\* set and whose output directory exists.
C8_CompleteDocumentOrError ==
  \A p \in Procs :
    /\ run[p].document # None => Returned(p)
    /\ Failed(p) => run[p].document = None /\ run[p].raised # None
    /\ Returned(p) =>
         /\ run[p].raised = None
         /\ run[p].document # None
         /\ LET d == run[p].document[1]
            IN /\ d.confidence # None
               /\ d.output_directory # None
               /\ d.generated_files # None
               /\ d.processing_time # None
               /\ d.output_directory[1] \in root
               /\ d.extracted_text = PdfText(run[p].pdf_path)
               /\ d.tables = PdfTables(run[p].pdf_path)

\* a run returned a Document
C8_Witness ==
  \E p \in Procs :
    /\ Returned(p)
    /\ run[p].document[1].processing_time = Some(MaxTime)
    /\ run[p].document[1].output_directory = Some("a_01")

\* C9: a successful save into directory D lists the text file, the tables file
\* iff there are tables, the PDF copy iff the source exists, and the metadata
\* file, in that order; each is in D on disk and is named D plus a suffix.
C9_GeneratedFiles ==
  [][ \A p \in Procs :
        run[p].pc = "write" /\ run'[p].pc = "assemble" =>
          LET D == run[p].unique_dir
              g == run'[p].generated_files
              expected ==
                << D \o "_texto.txt" >>
                \o (IF Len(run[p].tables) > 0 THEN << D \o "_tablas.json" >> ELSE <<>>)
                \o (IF run[p].pdf_path \in pdfs THEN << D \o "_original.pdf" >> ELSE <<>>)
                \o << D \o "_metadata.json" >>
          IN /\ Len(g) = Len(expected)
             /\ Len(g) >= 2
             /\ D \in DOMAIN disk'
             /\ \A i \in 1 .. Len(g) :
                  /\ g[i].dir = D
                  /\ g[i].file = expected[i]
                  /\ g[i].file \in DOMAIN disk'[D]
    ]_vars

\* a save with tables whose source PDF was gone: text, tables and metadata,
\* in a directory that had to be renamed
C9_Witness ==
  \E p \in Procs :
    /\ run[p].pc = "assemble"
    /\ Len(run[p].generated_files) = 3
    /\ Len(run[p].tables) > 0
    /\ run[p].unique_dir # run[p].base_name

\* C10: the metadata file of a run records the name, the confidence and the
\* processing time of the Document the run returns.
C10_MetadataMatchesDocument ==
  \A p \in Procs :
    Returned(p) =>
      LET d == run[p].document[1]
          D == d.output_directory[1]
          m == disk[D][D \o "_metadata.json"]
      IN /\ m.name = d.name
         /\ m.confidence = d.confidence
         /\ m.processing_time = d.processing_time

\* the engine calls of the current extract_text, and the text of call k
EngineCalls == ad.engine
EngineText(k) == ad.engine[k].text[1]
RECURSIVE OffsetOfPage(_)
\* the characters of the joined text that precede the text of page k
OffsetOfPage(k) ==
  IF k = 1 THEN 0 ELSE OffsetOfPage(k - 1) + Len(EngineText(k - 1)) + 2

\* C11: extract_text calls the engine once per page, in page order, and returns
\* the page texts in that order with exactly two newline characters between
\* consecutive pages and nothing before the first or after the last; a PDF of
\* no pages gives the empty string.
C11_OncePerPageJoined ==
  /\ \A k \in 1 .. Len(EngineCalls) : EngineCalls[k].image.page = k
  /\ ad.pc = "returned" =>
       LET n == Len(ad.images)
           text == ad.result[1]
       IN /\ Len(EngineCalls) = n
          /\ n = 0 => text = <<>>
          /\ n > 0 => Len(text) = OffsetOfPage(n) + Len(EngineText(n))
          /\ \A k \in 1 .. n :
               /\ SubSeq(text, OffsetOfPage(k) + 1, OffsetOfPage(k) + Len(EngineText(k)))
                    = EngineText(k)
               /\ k < n =>
                    /\ text[OffsetOfPage(k) + Len(EngineText(k)) + 1] = "\n"
                    /\ text[OffsetOfPage(k) + Len(EngineText(k)) + 2] = "\n"

\* three pages, the second one empty, the last one ending in a newline
C11_Witness ==
  /\ ad.pc = "returned"
  /\ Len(ad.images) = 3
  /\ ad.result = Some(<< "y", "\n", "\n", "\n", "\n", "\n", "y", "\n" >>)

\* the message of an exception quotes the path
NamesPath(e, path) == \E i \in 1 .. Len(e.message) : e.message[i] = PathStr(path)

\* C12: an extract_text in which rasterization or the engine failed returns no
\* text and raises one ProcessingError whose message names the PDF path.
C12_AllOrNothingNamingPath ==
  ad.pc = "failed" =>
    /\ ad.result = None
    /\ ad.raised # None
    /\ ad.raised[1].type = "ProcessingError"
    /\ NamesPath(ad.raised[1], ad.pdf_path)

\* the transforms a page must go through under the three flags
ExpectedTransforms(flags) ==
  << "grayscale" >>
  \o (IF flags.enable_denoising THEN << "denoise" >> ELSE <<>>)
  \o (IF flags.enable_contrast_enhancement THEN << "contrast" >> ELSE <<>>)
  \o (IF flags.enable_deskewing THEN << "deskew" >> ELSE <<>>)
  \o << "adaptive_threshold", "close", "open" >>

\* C13: under every combination of the three flags, the transforms applied to
\* a page by a preprocessing adapter are grayscale, denoise iff its flag,
\* contrast enhancement iff its flag, deskew iff its flag, adaptive
\* binarization, close, open, in this order and nothing else.
C13_FixedTransformOrder ==
  /\ pre.image # None =>
       /\ IsPrefix(pre.image[1].ops, ExpectedTransforms(pre.adapter[1]))
       /\ pre.pc = "engine" => pre.image[1].ops = ExpectedTransforms(pre.adapter[1])
  /\ \A k \in 1 .. Len(ad.engine) :
       ad.adapter[1].cls = "TesseractOpenCVAdapter" =>
         ad.engine[k].image.ops = ExpectedTransforms(ad.config[1])

\* the k-th smallest of a non-empty sequence of numbers
KthSmallest(as, k) ==
  CHOOSE x \in { as[j] : j \in 1 .. Len(as) } :
    /\ Cardinality({ j \in 1 .. Len(as) : as[j] < x }) < k
    /\ Cardinality({ j \in 1 .. Len(as) : as[j] <= x }) >= k
\* twice the median of a non-empty sequence of numbers
TwiceMedian(as) ==
  IF Len(as) % 2 = 1 THEN 2 * KthSmallest(as, (Len(as) + 1) \div 2)
  ELSE KthSmallest(as, Len(as) \div 2) + KthSmallest(as, Len(as) \div 2 + 1)
\* the angles, in degrees from horizontal, that an estimation over lines keeps
KeptAngles(lines) ==
  IF lines = None THEN <<>>
  ELSE LET first == SubSeq(lines[1], 1, Min(10, Len(lines[1])))
           good == SelectSeq(first, LAMBDA l : l.ok /\ l.theta - 90 > -45 /\ l.theta - 90 < 45)
       IN [ j \in 1 .. Len(good) |-> good[j].theta - 90 ]

\* C14: the estimate is the median of the angles of the first ten lines at
\* most that lie less than 45 degrees from horizontal; the image is rotated by
\* the estimate exactly when an angle was kept and the estimate is more than
\* half a degree in magnitude, and is returned unrotated otherwise.
C14_MedianOfSampledAngles ==
  [][ pre.pc = "rotate" =>
        LET kept == KeptAngles(pre.skew.lines)
            est == pre.skew.rotation_angle
        IN /\ pre.skew.angles = kept
           /\ kept = <<>> <=> est = None
           /\ kept # <<>> => est[1].num * 2 = TwiceMedian(kept) * est[1].den
           /\ pre'.pc = "binarize" /\ pre'.fault = "none" =>
                /\ pre'.image[1].rotation # None <=>
                     kept # <<>> /\ Abs(TwiceMedian(kept)) > 1
                /\ pre'.image[1].rotation # None => pre'.image[1].rotation = est
                /\ pre'.image[1].ops = pre.image[1].ops
    ]_vars

\* eleven lines detected, eight of them at 45 degrees: the two kept angles are
\* 0 and 1, the estimate is half a degree
C14_Witness ==
  /\ pre.pc = "rotate"
  /\ pre.skew.lines # None
  /\ Len(pre.skew.lines[1]) > 10
  /\ pre.skew.angles = << 0, 1 >>
  /\ pre.skew.rotation_angle = Some(Ratio(1, 2))

\* C15: an error inside skew estimation or rotation does not leave the
\* preprocessing of the page: the image stays unrotated, and binarization,
\* close and open still run and give the stage's output.
C15_SkewErrorsRecovered ==
  pre.fault # "none" =>
    /\ pre.pc \in { "binarize", "close", "open", "engine" }
    /\ pre.raised = None
    /\ pre.image[1].rotation = None
    /\ IsPrefix(pre.image[1].ops, ExpectedTransforms(pre.adapter[1]))
    /\ pre.pc = "engine" => pre.image[1].ops = ExpectedTransforms(pre.adapter[1])

\* the rotation itself failed and the page still reached the engine
C15_Witness ==
  /\ pre.fault = "warpAffine"
  /\ pre.pc = "engine"
  /\ pre.image[1].rotation = None

\* C16: the direct adapter hands every rasterized page to the engine as it
\* was rasterized, with no transform applied; the preprocessing adapter hands
\* the engine only pages that went through its preprocessing.
C16_PreprocessBeforeEngine ==
  \A k \in 1 .. Len(ad.engine) :
    LET given == ad.engine[k].image
        raster == PageImage(k, ad.adapter[1].dpi)
    IN /\ given.page = raster.page /\ given.dpi = raster.dpi
       /\ ad.adapter[1].cls = "TesseractAdapter" => given = raster /\ given.ops = <<>>
       /\ ad.adapter[1].cls = "TesseractOpenCVAdapter" =>
            /\ given.ops # <<>>
            /\ given.ops[1] = "grayscale"
            /\ given # raster

\* the preprocessing adapter returned the text of two pages
C16_Witness ==
  /\ ad.pc = "returned"
  /\ ad.adapter[1].cls = "TesseractOpenCVAdapter"
  /\ Len(ad.engine) = 2
  /\ \A k \in 1 .. 2 : ad.engine[k].image.ops # <<>>

\* C20: the factory returns the direct adapter for selector basic and the
\* preprocessing adapter for selector opencv, each carrying the language and
\* the resolution of the configuration; for any other selector it raises
\* ConfigurationError and constructs no adapter.
C20_FactoryBySelector ==
  ad.config # None =>
    LET config == ad.config[1]
        Carries(cls) ==
          /\ ad.adapter # None
          /\ ad.adapter[1].cls = cls
          /\ ad.adapter[1].lang = config.language
          /\ ad.adapter[1].dpi = config.dpi
          /\ ad.constructed = << ad.adapter[1] >>
    IN /\ config.engine_type = "basic" => Carries("TesseractAdapter")
       /\ config.engine_type = "opencv" => Carries("TesseractOpenCVAdapter")
       /\ config.engine_type \notin { "basic", "opencv" } =>
            /\ ad.adapter = None
            /\ ad.constructed = <<>>
            /\ ad.raised # None
            /\ ad.raised[1].type = "ConfigurationError"

\* selector auto was refused and no adapter is held
C20_Witness ==
  /\ ad.config # None
  /\ ad.config[1].engine_type = "auto"
  /\ ad.config[1].language = "eng"
  /\ ad.raised # None
  /\ ad.raised[1].type = "ConfigurationError"
  /\ ad.adapter = None

\* the adapter the factory builds for a profile
AdapterFor(profile) ==
  create_ocr_adapter([ engine_type |-> profile.engine_type, language |-> "spa",
                       dpi |-> profile.dpi,
                       enable_deskewing |-> profile.enable_deskewing,
                       enable_denoising |-> profile.enable_denoising,
                       enable_contrast_enhancement |-> profile.enable_contrast_enhancement ])
Direct(profile) ==
  /\ profile.engine_type = "basic"
  /\ AdapterFor(profile).returned # None
  /\ AdapterFor(profile).returned[1].cls = "TesseractAdapter"
Preprocessed(profile) ==
  /\ profile.engine_type = "opencv"
  /\ AdapterFor(profile).returned # None
  /\ AdapterFor(profile).returned[1].cls = "TesseractOpenCVAdapter"
FlagsOf(profile) ==
  << profile.enable_deskewing, profile.enable_denoising,
     profile.enable_contrast_enhancement >>

\* C17: each of the five types has one profile: SCANNED preprocessed, 300 dpi,
\* deskew, denoise and contrast on; NATIVE_TEXT direct, 150 dpi, all off; MIXED
\* preprocessed, 250 dpi, deskew and contrast on, denoise off; every profile's
\* engine is direct or preprocessed and its resolution is within 72..600.
C17_ProfilePerType ==
  an.config # None =>
    LET t == an.config[1].pdf_type
        p == an.config[1].profile
    IN /\ t \in { "SCANNED", "NATIVE_TEXT", "MIXED", "TABLE_HEAVY", "IMAGE_HEAVY" }
       /\ Direct(p) \/ Preprocessed(p)
       /\ p.dpi >= 72 /\ p.dpi <= 600
       /\ t = "SCANNED" =>
            Preprocessed(p) /\ p.dpi = 300 /\ FlagsOf(p) = << TRUE, TRUE, TRUE >>
       /\ t = "NATIVE_TEXT" =>
            Direct(p) /\ p.dpi = 150 /\ FlagsOf(p) = << FALSE, FALSE, FALSE >>
       /\ t = "MIXED" =>
            Preprocessed(p) /\ p.dpi = 250 /\ FlagsOf(p) = << TRUE, FALSE, TRUE >>

\* the profile of NATIVE_TEXT was looked up after a PDF was classified as such
C17_Witness ==
  /\ an.config # None
  /\ an.pdf_type = Some("NATIVE_TEXT")
  /\ an.config[1].pdf_type = "NATIVE_TEXT"
  /\ an.config[1].profile.dpi = 150

\* a ratio is a quotient by a non-zero count and is not negative
WellFormed(r) == r.den > 0 /\ r.num >= 0

\* C18: in every metrics record, while it is filled and when it is returned,
\* text_extractable_pages <= total_pages and the three ratios are
\* non-negative; for a PDF of no pages nothing is divided and the three ratios
\* of the returned record are 0.
C18_MetricsWellFormed ==
  /\ metrics.text_extractable_pages <= metrics.total_pages
  /\ WellFormed(metrics.avg_text_per_page)
  /\ WellFormed(metrics.image_to_page_ratio)
  /\ WellFormed(metrics.table_to_page_ratio)
  /\ an.pc = "done" /\ metrics.total_pages = 0 =>
       /\ metrics.avg_text_per_page.num = 0
       /\ metrics.image_to_page_ratio.num = 0
       /\ metrics.table_to_page_ratio.num = 0
  /\ an.pc = "done" /\ metrics.total_pages > 0 =>
       /\ metrics.avg_text_per_page =
            Ratio(metrics.total_text_length, metrics.total_pages)
       /\ metrics.image_to_page_ratio = Ratio(metrics.total_images, metrics.total_pages)
       /\ metrics.table_to_page_ratio = Ratio(metrics.total_tables, metrics.total_pages)

\* the record of a PDF without pages was returned
C18_Witness ==
  /\ an.pc = "done"
  /\ metrics.total_pages = 0
  /\ metrics.table_to_page_ratio = Ratio(0, 1)

\* C19: an analysis in which a reader failed raises DocumentError and returns
\* neither metrics nor a type; metrics are returned only after both reader
\* passes went over every page.
C19_DocumentErrorNoPartialMetrics ==
  /\ an.pc = "raised" =>
       /\ an.raised # None
       /\ an.raised[1].type = "DocumentError"
       /\ an.pdf_type = None
       /\ metrics = NoMetrics
  /\ an.pdf_type # None => an.pc = "done" /\ an.i = metrics.total_pages

\* C25: whatever extract_text calls were made on an adapter the factory built,
\* whether they returned or raised, get_confidence answers 0, and every
\* Document the orchestrator returns carries the confidence 0 (within 0..100).
C25_ConfidenceAlwaysZero ==
  /\ ad.adapter # None => get_confidence(ad.adapter[1]) = 0
  /\ \A a \in { ad.constructed[j] : j \in 1 .. Len(ad.constructed) } :
        get_confidence(a) = 0
  /\ last_confidence = 0
  /\ \A p \in Procs :
        run[p].document # None =>
          /\ run[p].document[1].confidence = Some(0)
          /\ run[p].document[1].confidence[1] \in 0 .. 100

\* an extract_text call on an adapter of the factory has returned after two
\* pages went through the engine
C25_Witness ==
  /\ ad.pc = "returned"
  /\ ad.adapter # None
  /\ Len(ad.engine) >= 2
  /\ ad.engine[1].text # None
  /\ get_confidence(ad.adapter[1]) = 0

\* the smallest counter k >= 1 whose name base_kk is not among entries
SmallestFree(N, entries) ==
  CHOOSE k \in 1 .. 9 :
    Numbered(N, k) \notin entries /\ \A j \in 1 .. (k - 1) : Numbered(N, j) \in entries

\* the name the allocation has to return for base name N in a root with entries
FirstUnused(N, entries) ==
  IF N \notin entries THEN N ELSE Numbered(N, SmallestFree(N, entries))

\* a step in which _create_unique_dir returns
Allocates == Len(allocs') = Len(allocs) + 1

\* the directory returned is the first unused name, and it is the one entry
\* the step adds to the output root
AllocatedFirstUnused ==
  LET made == allocs'[Len(allocs')]
  IN /\ made.dir = FirstUnused(made.base, root)
     /\ made.dir \notin root
     /\ DOMAIN disk' = root \cup { made.dir }
     /\ \A d \in root : disk'[d] = disk[d]

\* C26: the allocation loop ends whatever entries the output root has; it
\* returns the base name when that is unused and otherwise base_NN for the
\* smallest counter N >= 1 whose name is unused, so that a gap is filled before
\* a higher counter is taken; it creates that directory and no other, and the
\* loop itself creates nothing.
C26_AllocatesFirstUnused ==
  /\ [][ (Allocates => AllocatedFirstUnused) /\ (run[1].pc = "exists" => disk' = disk) ]_vars
  /\ (run[1].pc = "exists") ~> (run[1].pc = "write")

\* the root held a and a_02 and a save of base name a was given the gap a_01
C26_Witness ==
  /\ root0 = { "a", "a_02" }
  /\ Len(allocs) >= 1
  /\ allocs[1].base = "a"
  /\ allocs[1].dir = "a_01"
  /\ root = { "a", "a_01", "a_02" }

\* a step in which a write of save_document raises
StorageFails == run[1].pc = "write" /\ run'[1].pc = "failed"

\* the files of directory d are among those of the next state, unchanged
Kept(d) ==
  /\ d \in DOMAIN disk'
  /\ \A f \in DOMAIN disk[d] : f \in DOMAIN disk'[d] /\ disk'[d][f] = disk[d][f]

\* the name that follows dir in the numbering of base name N
Successor(dir, N) ==
  IF \E k \in 0 .. 8 : dir = Numbered(N, k)
    THEN Numbered(N, 1 + CHOOSE k \in 0 .. 8 : dir = Numbered(N, k))
    ELSE N

\* C27: when a write of the storage step raises after the directory was
\* allocated, the run raises ProcessingError and nothing is undone: the
\* directory and the files written before the failure stay, nothing is ever
\* removed from the output root afterwards, and the next save of the same
\* file name is allocated the next suffix.
C27_FailedSaveKeepsDirectory ==
  [][ /\ StorageFails =>
           ( /\ run'[1].raised # None
             /\ run'[1].raised[1].type = "ProcessingError"
             /\ run'[1].raised[1].cause = "OSError"
             /\ run[1].unique_dir \in DOMAIN disk' )
      /\ \A d \in root : Kept(d)
      /\ ( Allocates /\ Len(allocs) >= 1
              /\ allocs[Len(allocs)].base = allocs'[Len(allocs')].base )
           => ( /\ allocs'[Len(allocs')].dir # allocs[Len(allocs)].dir
                /\ allocs[Len(allocs)].dir \in root
                /\ Successor(allocs[Len(allocs)].dir, allocs[Len(allocs)].base) \notin root
                      => allocs'[Len(allocs')].dir =
                           Successor(allocs[Len(allocs)].dir, allocs[Len(allocs)].base) )
    ]_vars

\* the first save of base name a failed at its second write, leaving the
\* directory a with the text file alone; the next save of a was given a_01
C27_Witness ==
  /\ root0 = {}
  /\ Len(allocs) = 2
  /\ allocs[1].dir = "a"
  /\ allocs[2].base = "a"
  /\ allocs[2].dir = "a_01"
  /\ "a" \in root
  /\ DOMAIN disk["a"] = { "a_texto.txt" }

\* the saves that returned with directory d
SavedAs(d) ==
  { st.saved[j] : j \in { i \in 1 .. Len(st.saved) :
                            st.saved[i].dir = d /\ st.saved[i].returned } }

\* C29: get_document called with the name of the directory a save was given
\* returns a document with that name and the saved text and tables (an empty
\* table list is read back as empty); for a name without a directory, or a
\* directory without a metadata file, it returns None.
C29_SaveGetRoundTrip ==
  st.got # None =>
    LET id == st.got[1].id
        document == st.got[1].document
    IN /\ \A s \in SavedAs(id) :
            /\ document # None
            /\ document[1].name = id
            /\ document[1].text = s.text
            /\ document[1].tables = s.tables
       /\ id \notin root => document = None
       /\ (id \in root /\ \A f \in DOMAIN disk[id] : f # id \o "_metadata.json")
            => document = None

\* C23: process_pdf raises nothing; when the use case returned a Document the
\* dict has success = TRUE and the name, text length, table count, output
\* directory, confidence and processing time of that Document; when the use
\* case raised, the dict has success = FALSE and the exception's message.
C23_ControllerReportsOutcome ==
  ctl # None =>
    /\ Returned(1) =>
         LET document == run[1].document[1]
         IN /\ ctl[1].success = TRUE
            /\ ctl[1].document = document.name
            /\ ctl[1].text_length = Len(document.extracted_text)
            /\ ctl[1].tables_count = Len(document.tables)
            /\ ctl[1].output_dir = document.output_directory
            /\ ctl[1].confidence = document.confidence
            /\ ctl[1].processing_time = document.processing_time
    /\ Failed(1) =>
         /\ ctl[1].success = FALSE
         /\ ctl[1].error = run[1].raised[1]

\* C30: when an update request is answered 400 the shared configuration has
\* the field values it had before the request.
C30_RejectedUpdateChangesNothing ==
  (cfg.status_code = Some(400)) => cfg.config = cfg.before[1]

\* the status of registry entry file_id
StatusOf(file_id) == reg.db[file_id][1].status

\* C28: for a registered file the processing endpoint has set the status to
\* "processing" when the processor is invoked, and when the handler is left the
\* status is "processed" (answer 200) or "error" (any failure, a missing stored
\* file included), never "processing" or "uploaded"; for an id without an
\* entry the answer is 404 and the registry is as it was.
C28_StatusFollowsHandler ==
  /\ reg.h.pc \in { "execute", "output" } =>
       reg.db[reg.h.file_id] # None /\ StatusOf(reg.h.file_id) = "processing"
  /\ reg.h.seen # None => reg.h.seen = Some("processing")
  /\ reg.h.status_code # None =>
       IF reg.h.before[1][reg.h.file_id] = None
         THEN reg.h.status_code = Some(404) /\ reg.db = reg.h.before[1]
         ELSE /\ reg.db[reg.h.file_id] # None
              /\ StatusOf(reg.h.file_id) =
                   IF reg.h.status_code = Some(200) THEN "processed" ELSE "error"

\* a registered file whose stored file is gone was answered 404 and its entry
\* went from "uploaded" to "error"
C28_Witness ==
  /\ reg.h.status_code = Some(404)
  /\ reg.h.before[1][reg.h.file_id] # None
  /\ reg.h.before[1][reg.h.file_id][1].status = "uploaded"
  /\ reg.h.file_id \notin reg.files
  /\ StatusOf(reg.h.file_id) = "error"

\* the adapter class an engine name stands for
ClassOf(engine_type) ==
  IF engine_type = ENGINE_TYPE_OPENCV THEN "TesseractOpenCVAdapter" ELSE "TesseractAdapter"

\* C21: when the engine of a request is chosen automatically from the detected
\* type, the adapter of the processor that extracts the text is the one the
\* derived choice names: preprocessed for a scanned document, direct for a
\* native-text one.
C21_DerivedEngineExtracts ==
  (reg.h.requested = "auto" /\ reg.h.adapter # None) =>
     /\ reg.h.engine_type =
          Some(IF reg.db[reg.h.file_id][1].pdf_type = "scanned"
                 THEN ENGINE_TYPE_OPENCV ELSE ENGINE_TYPE_BASIC)
     /\ reg.h.adapter[1].cls = ClassOf(reg.h.engine_type[1])

\* C22: under every interleaving of concurrent requests each run works on its
\* own temporary file: what it reads it wrote itself, and it truncates or
\* deletes no temporary file another run is using, also when two uploads have
\* the same filename.
C22_OwnTemporaryFile ==
  \A e \in up.events : e.of = e.by

\* a text baseline is among the rows _correct_skew samples
BaselineSampled ==
  /\ sk.lines # None
  /\ \E j \in 1 .. Min(SkewSampleLines, Len(sk.lines[1])) : sk.lines[1][j] = Baseline(sk.t)

\* the estimate equals x degrees
EstimateIs(x) ==
  /\ sk.rotation_angle # None
  /\ sk.rotation_angle[1].num = x * sk.rotation_angle[1].den

====
